---------------------------- MODULE Spec2Model ----------------------------
(***************************************************************************)
(* Scene editor: the transform-gizmo drag engine (useGizmoDrag), the fly   *)
(* camera controller (useFlyControls), the keyboard shortcut handler, the  *)
(* two arbitration flags, the renderable registry and the part of the      *)
(* editor store they read and write.                                       *)
(*                                                                         *)
(* Numbers.  Vectors are triples of integers.  A direction that the code   *)
(* normalises to unit length is kept as the shortest integer vector with   *)
(* the same direction (see normalize); a plane normal*p + constant = 0 and *)
(* every ray/plane intersection are unchanged by that positive factor.     *)
(* Angles are whole quarter turns (1 = pi/2), orientations (quaternions)   *)
(* are the 3x3 rotation matrices they stand for.  An input whose result is *)
(* not representable this way (a non-integer intersection point, an angle  *)
(* that is not a quarter turn) is outside the bounds of the model: the     *)
(* handlers are only applied to inputs for which the arithmetic is exact.  *)
(***************************************************************************)
EXTENDS Integers, Sequences, FiniteSets, TLC

(* ------------------------------ bounds -------------------------------- *)

\* ids the store may hand out (uuidv4 values)
Ids == {"a", "b"}

\* largest absolute coordinate a renderable may be moved to
MaxCoord == 4

\* largest absolute scale component a renderable may be given
MaxScale == 3

\* movement keys held at the same time
MaxHeld == 1

MaxTimers == 1

(* --------------------------- vector algebra --------------------------- *)

Zero3 == <<0, 0, 0>>

Abs(n) == IF n < 0 THEN -n ELSE n

Add(u, v) == <<u[1] + v[1], u[2] + v[2], u[3] + v[3]>>

Sub(u, v) == <<u[1] - v[1], u[2] - v[2], u[3] - v[3]>>

Dot(u, v) == u[1] * v[1] + u[2] * v[2] + u[3] * v[3]

Cross(u, v) == <<u[2] * v[3] - u[3] * v[2],
                 u[3] * v[1] - u[1] * v[3],
                 u[1] * v[2] - u[2] * v[1]>>

\* Vector3.multiply: component-wise product
Multiply(u, v) == <<u[1] * v[1], u[2] * v[2], u[3] * v[3]>>

MultiplyScalar(u, k) == <<u[1] * k, u[2] * k, u[3] * k>>

LengthSq(u) == Dot(u, u)

\* exact integer division, used only where the guards make it exact
Divides(d, n) == d # 0 /\ n % Abs(d) = 0

ExactDiv(n, d) == IF d < 0 THEN (0 - n) \div (0 - d) ELSE n \div d

RECURSIVE Gcd(_, _)
Gcd(m, n) == IF n = 0 THEN m ELSE Gcd(n, m % n)

\* Vector3.normalize: v / |v|, and the zero vector stays zero.  The unit
\* vector is represented by the shortest integer vector of that direction.
normalize(u) ==
  LET g == Gcd(Gcd(Abs(u[1]), Abs(u[2])), Abs(u[3]))
  IN  IF g = 0 THEN Zero3
      ELSE <<ExactDiv(u[1], g), ExactDiv(u[2], g), ExactDiv(u[3], g)>>

\* a vector of length one on the integer grid: plus or minus a coordinate axis
IsUnit(u) == LengthSq(u) = 1

\* the largest k in lo..hi with k * k <= n, by bisection
RECURSIVE SqrtBetween(_, _, _)
SqrtBetween(n, lo, hi) ==
  IF lo >= hi THEN lo
  ELSE LET mid == (lo + hi + 1) \div 2
       IN  IF mid * mid <= n THEN SqrtBetween(n, mid, hi) ELSE SqrtBetween(n, lo, mid - 1)

\* Math.sqrt rounded down; the root of a 32-bit number is below 2^16
Sqrt(n) == SqrtBetween(n, 0, IF n < 2^15 THEN n ELSE 2^15)

IsSquare(n) == Sqrt(n) * Sqrt(n) = n

\* Vector3.distanceTo, defined where the distance is a whole number
DistExact(u, v) == IsSquare(LengthSq(Sub(u, v)))

distanceTo(u, v) == Sqrt(LengthSq(Sub(u, v)))

(* ----------------------- rotations (quarter turns) -------------------- *)

\* a rotation matrix is <<row1, row2, row3>>
Identity == <<<<1, 0, 0>>, <<0, 1, 0>>, <<0, 0, 1>>>>

Col(M, j) == <<M[1][j], M[2][j], M[3][j]>>

\* Quaternion.invert of a unit quaternion: the transposed matrix
Transpose(M) == <<Col(M, 1), Col(M, 2), Col(M, 3)>>

\* Vector3.applyQuaternion
applyQuaternion(v, M) == <<Dot(M[1], v), Dot(M[2], v), Dot(M[3], v)>>

\* Quaternion.multiply: A.multiply(B) is the rotation B followed by A
MatMul(A, B) ==
  <<<<Dot(A[1], Col(B, 1)), Dot(A[1], Col(B, 2)), Dot(A[1], Col(B, 3))>>,
    <<Dot(A[2], Col(B, 1)), Dot(A[2], Col(B, 2)), Dot(A[2], Col(B, 3))>>,
    <<Dot(A[3], Col(B, 1)), Dot(A[3], Col(B, 2)), Dot(A[3], Col(B, 3))>>>>

Cos4(k) == CASE k % 4 = 0 -> 1 [] k % 4 = 1 -> 0 [] k % 4 = 2 -> -1 [] OTHER -> 0

Sin4(k) == CASE k % 4 = 0 -> 0 [] k % 4 = 1 -> 1 [] k % 4 = 2 -> 0 [] OTHER -> -1

\* Math.atan2 in quarter turns, for arguments on the coordinate axes;
\* the half turn stands for both pi and -pi
Atan2Exact(s, c) == s = 0 \/ c = 0

Atan2(s, c) ==
  CASE s = 0 /\ c >= 0 -> 0
    [] s > 0 -> 1
    [] s < 0 -> -1
    [] OTHER -> 2

\* Matrix4.makeRotationFromEuler, order XYZ (Quaternion.setFromEuler)
EulerToMat(e) ==
  LET a == Cos4(e[1])  b == Sin4(e[1])
      c == Cos4(e[2])  d == Sin4(e[2])
      ee == Cos4(e[3]) f == Sin4(e[3])
  IN  <<<<c * ee,             0 - c * f,         d>>,
        <<a * f + b * ee * d, a * ee - b * f * d, 0 - b * c>>,
        <<b * f - a * ee * d, b * ee + a * f * d, a * c>>>>

\* Euler.setFromRotationMatrix, order XYZ (Euler.setFromQuaternion)
MatToEuler(M) ==
  IF Abs(M[1][3]) < 1
  THEN <<Atan2(0 - M[2][3], M[3][3]), M[1][3], Atan2(0 - M[1][2], M[1][1])>>
  ELSE <<Atan2(M[3][2], M[2][2]), M[1][3], 0>>

\* Quaternion.setFromAxisAngle(axis, angle): Rodrigues' formula.  With a
\* quarter-turn angle the matrix is on the grid when the axis is a unit
\* coordinate axis, or the angle is 0, or it is a half turn about an axis n
\* with 2 n_i n_j divisible by |n|^2.
AxisAngleExact(n, k) ==
  \/ k % 4 = 0
  \/ IsUnit(n)
  \/ /\ k % 4 = 2
     /\ LengthSq(n) > 0
     /\ \A i, j \in 1..3 : Divides(LengthSq(n), 2 * n[i] * n[j])

setFromAxisAngle(n, k) ==
  LET c == Cos4(k)
      s == Sin4(k)
      l == IF LengthSq(n) = 0 THEN 1 ELSE LengthSq(n)
      K == <<<<0, 0 - n[3], n[2]>>, <<n[3], 0, 0 - n[1]>>, <<0 - n[2], n[1], 0>>>>
      E(i, j) == (IF i = j THEN c ELSE 0) + s * K[i][j]
                 + ExactDiv((1 - c) * n[i] * n[j], l)
  IN  IF k % 4 = 0 THEN Identity
      ELSE <<<<E(1, 1), E(1, 2), E(1, 3)>>,
             <<E(2, 1), E(2, 2), E(2, 3)>>,
             <<E(3, 1), E(3, 2), E(3, 3)>>>>

(* ----------------------------- ray casting ----------------------------- *)

\* A ray is [origin, direction]; the direction is kept un-normalised, which
\* leaves the intersection point unchanged.
RayThrough(o, p) == [origin |-> o, direction |-> Sub(p, o)]

\* Ray.intersectPlane(plane, target): <<>> stands for null (target is left
\* untouched), <<p>> for the intersection point p written to target.
\* Ray.distanceToPlane returns 0 (the origin) for a coplanar ray, null for a
\* parallel ray off the plane and for a plane behind the ray.
IntersectExact(ray, n, c) ==
  LET den == Dot(n, ray.direction)
      num == 0 - (Dot(ray.origin, n) + c)
  IN  \/ den = 0
      \/ num * den < 0
      \/ \A i \in 1..3 : Divides(den, num * ray.direction[i])

intersectPlane(ray, n, c) ==
  LET den == Dot(n, ray.direction)
      num == 0 - (Dot(ray.origin, n) + c)
  IN  IF den = 0
      THEN IF Dot(n, ray.origin) + c = 0 THEN <<ray.origin>> ELSE <<>>
      ELSE IF num * den < 0 THEN <<>>
      ELSE <<Add(ray.origin,
                 <<ExactDiv(num * ray.direction[1], den),
                   ExactDiv(num * ray.direction[2], den),
                   ExactDiv(num * ray.direction[3], den)>>)>>

(* ------------------------------- state -------------------------------- *)

Null == "null"

TransformModes == {"select", "translate", "rotate", "scale"}

TransformSpaces == {"world", "local"}

\* Axis tags of the gizmo handles (type Axis without null)
Axes == {"X", "Y", "Z", "XY", "XZ", "YZ", "XYZ"}

VARIABLES
  objects,             \* store: Record<id, SceneObject>, a function on the ids present
  objectKeys,          \* store: the key order of `objects` (insertion order)
  rootObjectIds,       \* store: ids of the root nodes, in order
  selectedIds,         \* store: the selection, in order
  transformMode,       \* store
  transformSpace,      \* store
  history,             \* store: the commands pushCommand has stored
  historyIndex,        \* store: 0-based index of the latest applied command, -1 if none
  timers,              \* the reorderObject calls that setTimeout(..., 0) holds, in order
  meshRegistry,        \* MeshRegistry: id -> the live renderable (its transform)
  dragRef,             \* useGizmoDrag: dragRef.current
  vec3a,               \* useGizmoDrag: the helper vector _vec3a the handlers close over
  pointerCapture,      \* whether a gizmo handle holds the pointer capture
  orbitEnabled,        \* orbitRef.current.enabled
  isTransformDragging, \* useTransformDragState: the module-level dragging flag
  isRightMouseDown,    \* useRightMouseState: the module-level flying flag
  fly,                 \* useFlyControls: state.current
  gesture,             \* history of the current drag gesture (not program state)
  subscribers,         \* useRightMouseState: the callbacks in the Set `subscribers`, in insertion order
  notified,            \* the calls <<callback, value>> the latest setDown made, in order (not program state)
  flyMounted,          \* useFlyControls: whether its event listeners are installed
  unmountedFlying,     \* whether the latest unmount of the fly controller came during a flight
  pendingEffects,      \* React: the passive effects and cleanups of SceneObjectRenderer that the
                       \* latest commit scheduled and that have not run yet
  cursor,              \* browser: clientX, clientY of the latest mouse event
  pointerLock,         \* browser: "locked" when document.pointerLockElement is the canvas,
                       \* "requested" while a requestPointerLock() is pending, else "none"
  lockSupported,       \* browser: whether requestPointerLock() can be called without throwing
  cameraSpeed,         \* store: cameraSpeed, a fraction <<numerator, denominator>>
  globalSpeed,         \* useFlyControls: the module-level globalSpeed
  camera,              \* camera.position and the orbit controller's target as the focus
                       \* animation writes them, in eighths of a unit
  animations,          \* CameraFocusHandler: the animate callbacks requestAnimationFrame holds, in order
  now,                 \* Date.now(), in quarter seconds
  filter,              \* useHierarchyState: the hierarchy panel's filter
  filteredIds          \* useHierarchyState: the memoized filteredIds, <<>> for undefined

storeVars == <<objects, objectKeys, rootObjectIds, selectedIds, transformMode, transformSpace,
               history, historyIndex>>

vars == <<objects, objectKeys, rootObjectIds, selectedIds, transformMode, transformSpace,
          history, historyIndex, timers,
          meshRegistry, dragRef, vec3a, pointerCapture, orbitEnabled,
          isTransformDragging, isRightMouseDown, fly, gesture, subscribers, notified,
          flyMounted, unmountedFlying, pendingEffects, cursor, pointerLock, lockSupported, cameraSpeed, globalSpeed,
          camera, animations, now, filter, filteredIds>>

\* state that the editor's handlers leave alone except where they say so
flagVars == <<subscribers, notified>>

lookVars == <<cursor, pointerLock, lockSupported>>

speedVars == <<cameraSpeed, globalSpeed>>

focusVars == <<camera, animations, now>>

panelVars == <<filter, filteredIds>>

sideVars == <<flagVars, flyMounted, unmountedFlying, pendingEffects, lookVars, speedVars, focusVars, panelVars>>

\* defaultTransform
defaultTransform == [position |-> Zero3, rotation |-> Zero3, scale |-> <<1, 1, 1>>]

\* useRef initial value of dragRef
dragRefInit ==
  [active |-> FALSE, axis |-> Null,
   startPoint |-> Zero3, startObjectPosition |-> Zero3,
   startObjectRotation |-> Zero3, startObjectScale |-> Zero3,
   startQuaternion |-> Identity, planeNormal |-> Zero3, planeConstant |-> 0]

\* useRef initial value of the fly controller's state, after the effect that
\* copies the store's cameraSpeed (1 at the start) into speed and globalSpeed
flyInit ==
  [isRightMouseDown |-> FALSE,
   moveForward |-> FALSE, moveBackward |-> FALSE, moveLeft |-> FALSE,
   moveRight |-> FALSE, moveUp |-> FALSE, moveDown |-> FALSE,
   mouseDeltaX |-> 0, mouseDeltaY |-> 0, speed |-> <<1, 1>>,
   lastMouseX |-> 0, lastMouseY |-> 0, usePointerLock |-> TRUE]

\* history of the latest gesture: its phase, the id its pointer-down resolved,
\* that renderable's transform just before the pointer-down, the ray/plane
\* intersection found at the pointer-down, the updateTransform calls of its
\* pointer-up, whether a move has been applied, and whether the latest
\* pointer-down was refused
gestureInit ==
  [phase |-> "none", target |-> Null, pre |-> defaultTransform, startHit |-> <<>>,
   commits |-> 0, moves |-> 0, refused |-> FALSE]

\* the module-level values of the parts of the editor that the drag engine
\* does not touch
SideInit ==
  /\ subscribers = <<>>
  /\ notified = <<>>
  /\ flyMounted = TRUE
  /\ unmountedFlying = FALSE
  /\ pendingEffects = {}
  /\ cursor = <<0, 0>>
  /\ pointerLock = "none"
  /\ lockSupported = TRUE
  /\ cameraSpeed = <<1, 1>>
  /\ globalSpeed = <<1, 1>>
  /\ camera = [position |-> <<40, 40, 40>>, target |-> Zero3]
  /\ animations = <<>>
  /\ now = 0
  /\ filter = [searchQuery |-> <<>>, typeFilters |-> <<>>]
  /\ filteredIds = <<>>

Init ==
  /\ objects = <<>>
  /\ objectKeys = <<>>
  /\ rootObjectIds = <<>>
  /\ selectedIds = <<>>
  /\ transformMode = "translate"
  /\ transformSpace = "world"
  /\ history = <<>>
  /\ historyIndex = -1
  /\ timers = <<>>
  /\ meshRegistry = <<>>
  /\ dragRef = dragRefInit
  /\ vec3a = Zero3
  /\ pointerCapture = FALSE
  /\ orbitEnabled = TRUE
  /\ isTransformDragging = FALSE
  /\ isRightMouseDown = FALSE
  /\ fly = flyInit
  /\ gesture = gestureInit
  /\ SideInit

(* ------------------------------ helpers ------------------------------- *)

Range(s) == {s[i] : i \in 1..Len(s)}

\* Array.filter(x => x !== id)
Without(s, id) == SelectSeq(s, LAMBDA x : x # id)

Has(f, id) == id \in DOMAIN f

\* MeshRegistry.get(id) !== undefined
RegistryHas(id) == id \in DOMAIN meshRegistry

\* useSelectedObject: the selected object when exactly one id is selected and
\* it is in the store, else null.  <<>> stands for null, <<id>> for the object.
SelectedObjectOf(objs, sel) ==
  IF Len(sel) # 1 THEN <<>>
  ELSE IF sel[1] \in DOMAIN objs THEN <<sel[1]>> ELSE <<>>

useSelectedObject == SelectedObjectOf(objects, selectedIds)

\* TransformGizmo renders its handles unless there is no selected object or
\* the mode is 'select'; the handlers only receive events while it does.
GizmoMounted == useSelectedObject # <<>> /\ transformMode # "select"

\* the values the drag callbacks are memoised on: a change re-creates them,
\* closing over the fresh helper vectors of that render
CallbackDeps(objs, sel, mode, space) ==
  <<IF SelectedObjectOf(objs, sel) = <<>> THEN <<>> ELSE <<sel[1], objs[sel[1]]>>, mode, space>>

(* --------------------------- editor store ----------------------------- *)

\* addObject's state update: the new object is stored, then pushed on the
\* root list, or on its parent's child list when the parent exists
addObjectIn(st, id, transform, parentId) ==
  LET object == [transform |-> transform, parentId |-> parentId, childIds |-> <<>>]
      objs1 == [x \in DOMAIN st.objects \cup {id} |->
                  IF x = id THEN object ELSE st.objects[x]]
  IN  [objects |->
         IF parentId # Null /\ parentId \in DOMAIN st.objects
         THEN [objs1 EXCEPT ![parentId].childIds = Append(@, id)]
         ELSE objs1,
       keys |-> Append(st.keys, id),
       roots |-> IF parentId = Null THEN Append(st.roots, id) ELSE st.roots,
       selected |-> st.selected]

\* removeChildren(objId): the ids deleted with objId, its subtree
RECURSIVE Subtree(_, _, _)
Subtree(objs, id, fuel) ==
  IF id \notin DOMAIN objs \/ fuel = 0 THEN {}
  ELSE {id} \cup UNION {Subtree(objs, objs[id].childIds[i], fuel - 1) :
                          i \in 1..Len(objs[id].childIds)}

\* removeChildren(objId) never returns (and the update throws) when the
\* child lists lead from objId round a ring
RECURSIVE Endless(_, _, _)
Endless(objs, id, fuel) ==
  /\ id \in DOMAIN objs
  /\ \/ fuel = 0
     \/ \E i \in 1..Len(objs[id].childIds) : Endless(objs, objs[id].childIds[i], fuel - 1)

\* removeObject's state update
removeObjectIn(st, id) ==
  IF id \notin DOMAIN st.objects THEN st
  ELSE IF LET object == st.objects[id]
              objs1 == IF object.parentId # Null /\ object.parentId \in DOMAIN st.objects
                       THEN [st.objects EXCEPT ![object.parentId].childIds = Without(@, id)]
                       ELSE st.objects
          IN  Endless(objs1, id, Cardinality(DOMAIN objs1))
       THEN st
  ELSE
    LET object == st.objects[id]
        objs1 == IF object.parentId # Null /\ object.parentId \in DOMAIN st.objects
                 THEN [st.objects EXCEPT ![object.parentId].childIds = Without(@, id)]
                 ELSE st.objects
        roots1 == IF object.parentId # Null THEN st.roots ELSE Without(st.roots, id)
        gone == Subtree(objs1, id, Cardinality(DOMAIN objs1))
    IN  [objects |-> [x \in DOMAIN objs1 \ gone |-> objs1[x]],
         keys |-> SelectSeq(st.keys, LAMBDA x : x \notin gone),
         roots |-> roots1,
         selected |-> Without(st.selected, id)]

\* duplicateObject's state update: addObject of a copy with the same
\* transform and parent id and without children, under the fresh id newId
duplicateObjectIn(st, id, newId) ==
  IF id \notin DOMAIN st.objects THEN st
  ELSE addObjectIn(st, newId, st.objects[id].transform, st.objects[id].parentId)

\* mesh.getWorldPosition() for the renderable of id: its position and those
\* of the renderables it is nested in, as rendered from the objects objs
RECURSIVE WorldPosition(_, _, _)
WorldPosition(objs, id, fuel) ==
  IF id \notin DOMAIN meshRegistry \/ fuel = 0 THEN Zero3
  ELSE Add(meshRegistry[id].position,
           IF id \in DOMAIN objs /\ objs[id].parentId \in DOMAIN objs
           THEN WorldPosition(objs, objs[id].parentId, fuel - 1)
           ELSE Zero3)

\* the renderables id is nested in are neither rotated nor scaled, so that
\* world positions are sums; self says whether that of id counts too
RECURSIVE Unturned(_, _, _, _)
Unturned(objs, id, self, fuel) ==
  IF id \notin DOMAIN meshRegistry \/ fuel = 0 THEN TRUE
  ELSE /\ self => /\ meshRegistry[id].rotation = Zero3
                  /\ meshRegistry[id].scale = <<1, 1, 1>>
       /\ id \in DOMAIN objs /\ objs[id].parentId \in DOMAIN objs
            => Unturned(objs, objs[id].parentId, TRUE, fuel - 1)

\* reparentObject works on sums when no renderable above id or at and above
\* the new parent is rotated or scaled
ReparentExact(objs, id, newParentId) ==
  /\ Unturned(objs, id, FALSE, Cardinality(DOMAIN objs) + 1)
  /\ Unturned(objs, newParentId, TRUE, Cardinality(DOMAIN objs) + 1)

\* reparentObject: the local transform that keeps the renderable of id where
\* it is in the world; the stored one stays when id has no renderable
reparentTransform(objs, id, newParentId) ==
  IF id \notin DOMAIN meshRegistry THEN objs[id].transform
  ELSE LET mesh == meshRegistry[id]
           fuel == Cardinality(DOMAIN objs) + 1
           worldPosition == WorldPosition(objs, id, fuel)
           parentWorldPosition ==
             IF newParentId # Null /\ newParentId \in DOMAIN meshRegistry
             THEN WorldPosition(objs, newParentId, fuel)
             ELSE Zero3
       IN  [position |-> Sub(worldPosition, parentWorldPosition),
            rotation |-> MatToEuler(EulerToMat(mesh.rotation)),
            scale |-> mesh.scale]

\* reparentObject gone wrong: id stays on its old parent's child list
reparentObjectKeepingOldLink(st, id, newParentId) ==
  IF id \notin DOMAIN st.objects THEN st
  ELSE
    LET objs2 == [st.objects EXCEPT ![id].parentId = newParentId]
        objs3 == IF newParentId # Null /\ newParentId \in DOMAIN objs2
                 THEN [objs2 EXCEPT ![newParentId].childIds = Append(@, id)]
                 ELSE objs2
    IN  [st EXCEPT !.objects = objs3,
                   !.roots = IF newParentId = Null THEN Append(Without(st.roots, id), id)
                             ELSE Without(st.roots, id)]

\* reparentObject's state update: id leaves its old parent's child list or
\* the root list, takes the new parent id, and is pushed on the new
\* parent's child list, or on the root list for a null parent
reparentObjectIn(st, id, newParentId) ==
  IF id \notin DOMAIN st.objects THEN st
  ELSE
    LET object == st.objects[id]
        objs1 == IF object.parentId # Null /\ object.parentId \in DOMAIN st.objects
                 THEN [st.objects EXCEPT ![object.parentId].childIds = Without(@, id)]
                 ELSE st.objects
        roots1 == IF object.parentId # Null THEN st.roots ELSE Without(st.roots, id)
        objs2 == [objs1 EXCEPT ![id].parentId = newParentId]
        objs3 == IF newParentId # Null /\ newParentId \in DOMAIN objs2
                 THEN [objs2 EXCEPT ![newParentId].childIds = Append(@, id)]
                 ELSE objs2
        roots2 == IF newParentId = Null THEN Append(roots1, id) ELSE roots1
    IN  [st EXCEPT !.objects = [objs3 EXCEPT ![id].transform =
                                  reparentTransform(st.objects, id, newParentId)],
                   !.roots = roots2]

\* Array.prototype.indexOf, 0-based, -1 when x is not in s
indexOf(s, x) ==
  IF x \in Range(s) THEN (CHOOSE i \in 1..Len(s) : s[i] = x /\ \A j \in 1..(i - 1) : s[j] # x) - 1
  ELSE -1

\* s after s.splice(start, 0, x): a negative start counts from the end
splice(s, start, x) ==
  LET from == IF start < 0 THEN (IF Len(s) + start < 0 THEN 0 ELSE Len(s) + start)
              ELSE IF start > Len(s) THEN Len(s) ELSE start
  IN  SubSeq(s, 1, from) \o <<x>> \o SubSeq(s, from + 1, Len(s))

\* reorderObject's state update: among siblings, id moves just before or
\* just after targetId.  A parent id that is not in the store makes the
\* update throw, which leaves the state as it was.
reorderObjectIn(st, id, targetId, position) ==
  IF id \notin DOMAIN st.objects \/ targetId \notin DOMAIN st.objects THEN st
  ELSE IF st.objects[id].parentId # st.objects[targetId].parentId THEN st
  ELSE
    LET parentId == st.objects[id].parentId
    IN  IF parentId # Null /\ parentId \notin DOMAIN st.objects THEN st
        ELSE
          LET siblingList == IF parentId # Null THEN st.objects[parentId].childIds
                             ELSE st.roots
              filtered == Without(siblingList, id)
              targetIndex == indexOf(filtered, targetId)
              insertIndex == IF position = "before" THEN targetIndex ELSE targetIndex + 1
              moved == splice(filtered, insertIndex, id)
          IN  IF parentId # Null
              THEN [st EXCEPT !.objects[parentId].childIds = moved]
              ELSE [st EXCEPT !.roots = moved]

\* the part of the store the object actions work on
StoreState == [objects |-> objects, keys |-> objectKeys, roots |-> rootObjectIds,
               selected |-> selectedIds]

\* updateTransform gone wrong: only the position is assigned
updateTransformPositionOnly(objs, id, transform) ==
  IF id \in DOMAIN objs
  THEN [objs EXCEPT ![id].transform.position = transform.position]
  ELSE objs

\* updateTransform(id, transform): Object.assign on the object's transform;
\* nothing happens for an id that is not in the store
updateTransformIn(objs, id, transform) ==
  IF id \in DOMAIN objs THEN [objs EXCEPT ![id].transform = transform] ELSE objs

\* the part of the store undo and redo work on.  A command is a record of
\* the two closures it carries: the objects its undo() and its redo() leave
HistoryState == [objects |-> objects, history |-> history, historyIndex |-> historyIndex]

\* undo's state update: the command at historyIndex is undone and the index
\* moves down; nothing happens when the index is -1
undoIn(h) ==
  IF h.historyIndex >= 0
  THEN [h EXCEPT !.objects = h.history[h.historyIndex + 1].undo,
                 !.historyIndex = @ - 1]
  ELSE h

\* redo's state update: the index moves up and the command there is redone;
\* nothing happens when the index is at the last command
redoIn(h) ==
  IF h.historyIndex < Len(h.history) - 1
  THEN [h EXCEPT !.objects = h.history[h.historyIndex + 2].redo,
                 !.historyIndex = @ + 1]
  ELSE h

\* what the drag callbacks see after the store changed: unchanged helper
\* vector v while their dependencies are the same, fresh ones otherwise
Rerender(v) ==
  vec3a' = IF CallbackDeps(objects', selectedIds', transformMode', transformSpace')
              = CallbackDeps(objects, selectedIds, transformMode, transformSpace)
           THEN v ELSE Zero3

\* the store takes the state st, the callbacks re-render
StoreTakes(st) ==
  /\ objects' = st.objects
  /\ objectKeys' = st.keys
  /\ rootObjectIds' = st.roots
  /\ selectedIds' = st.selected
  /\ UNCHANGED <<transformMode, transformSpace, history, historyIndex, sideVars,
                 meshRegistry,
                 dragRef, pointerCapture, orbitEnabled, isTransformDragging,
                 isRightMouseDown, fly, gesture>>
  /\ Rerender(vec3a)

\* removeObject(id)
RemoveObject(id) ==
  /\ StoreTakes(removeObjectIn(StoreState, id))
  /\ UNCHANGED timers

\* duplicateObject(id); newId is the id uuidv4 draws
DuplicateObject(id, newId) ==
  /\ newId \notin DOMAIN objects
  /\ newId \notin DOMAIN meshRegistry
  /\ StoreTakes(duplicateObjectIn(StoreState, id, newId))
  /\ UNCHANGED timers

\* reparentObject(id, newParentId)
ReparentObject(id, newParentId) ==
  /\ ReparentExact(objects, id, newParentId)
  /\ StoreTakes(reparentObjectIn(StoreState, id, newParentId))
  /\ UNCHANGED timers

\* reorderObject(id, targetId, position)
ReorderObject(id, targetId, position) ==
  /\ StoreTakes(reorderObjectIn(StoreState, id, targetId, position))
  /\ UNCHANGED timers

\* the user adds an object from a menu: addObject({transform, parentId})
AddObject(id, position, parentId) ==
  /\ id \notin DOMAIN objects
  /\ id \notin DOMAIN meshRegistry
  /\ LET st == addObjectIn(StoreState, id,
                           [defaultTransform EXCEPT !.position = position], parentId)
     IN  /\ objects' = st.objects
         /\ objectKeys' = st.keys
         /\ rootObjectIds' = st.roots
  /\ UNCHANGED <<selectedIds, transformMode, transformSpace, history, historyIndex, timers, sideVars,
                 meshRegistry, dragRef,
                 pointerCapture, orbitEnabled, isTransformDragging, isRightMouseDown,
                 fly, gesture>>
  /\ Rerender(vec3a)

\* selectObject(id, additive), from a click on the object or on its tree row
SelectObject(id, additive) ==
  /\ id \in DOMAIN objects
  /\ selectedIds' = IF additive
                    THEN IF id \in Range(selectedIds) THEN selectedIds
                         ELSE Append(selectedIds, id)
                    ELSE <<id>>
  /\ UNCHANGED <<history, historyIndex, timers, sideVars, objects, objectKeys, rootObjectIds,
                 transformMode, transformSpace,
                 meshRegistry, dragRef, pointerCapture, orbitEnabled,
                 isTransformDragging, isRightMouseDown, fly, gesture>>
  /\ Rerender(vec3a)

\* setTransformMode(mode), from the toolbar
SetTransformMode(mode) ==
  /\ transformMode' = mode
  /\ UNCHANGED <<history, historyIndex, timers, sideVars, objects, objectKeys, rootObjectIds,
                 selectedIds, transformSpace,
                 meshRegistry, dragRef, pointerCapture, orbitEnabled,
                 isTransformDragging, isRightMouseDown, fly, gesture>>
  /\ Rerender(vec3a)

\* setTransformSpace(space), from the toolbar
SetTransformSpace(space) ==
  /\ transformSpace' = space
  /\ UNCHANGED <<history, historyIndex, timers, sideVars, objects, objectKeys, rootObjectIds,
                 selectedIds, transformMode,
                 meshRegistry, dragRef, pointerCapture, orbitEnabled,
                 isTransformDragging, isRightMouseDown, fly, gesture>>
  /\ Rerender(vec3a)

(* ------------------------- renderable registry ------------------------ *)

\* register gone wrong: the node registered first stays
registerFirstWins(reg, id, mesh) ==
  IF id \in DOMAIN reg THEN reg
  ELSE [x \in DOMAIN reg \cup {id} |-> IF x = id THEN mesh ELSE reg[x]]

\* MeshRegistry.register(id, mesh): Map.set
register(reg, id, mesh) ==
  [x \in DOMAIN reg \cup {id} |-> IF x = id THEN mesh ELSE reg[x]]

\* MeshRegistry.unregister(id): Map.delete
unregister(reg, id) == [x \in DOMAIN reg \ {id} |-> reg[x]]

\* MeshRegistry.get(id): <<mesh>>, or <<>> for undefined
get(reg, id) == IF id \in DOMAIN reg THEN <<reg[id]>> ELSE <<>>

\* a call of MeshRegistry.register(id, mesh)
Register(id, mesh) ==
  /\ meshRegistry' = register(meshRegistry, id, mesh)
  /\ UNCHANGED <<storeVars, timers, sideVars, dragRef, vec3a, pointerCapture, orbitEnabled,
                 isTransformDragging, isRightMouseDown, fly, gesture>>

\* a call of MeshRegistry.unregister(id)
Unregister(id) ==
  /\ meshRegistry' = unregister(meshRegistry, id)
  /\ UNCHANGED <<storeVars, timers, sideVars, dragRef, vec3a, pointerCapture, orbitEnabled,
                 isTransformDragging, isRightMouseDown, fly, gesture>>

\* ids whose visual is rendered: SceneObjects renders the roots that are in
\* the store, SceneObjectRenderer the children that are in the store
RECURSIVE RenderedFrom(_, _, _)
RenderedFrom(objs, id, fuel) ==
  IF id \notin DOMAIN objs \/ fuel = 0 THEN {}
  ELSE {id} \cup UNION {RenderedFrom(objs, objs[id].childIds[i], fuel - 1) :
                          i \in 1..Len(objs[id].childIds)}

Rendered ==
  UNION {RenderedFrom(objects, rootObjectIds[i], Cardinality(Ids)) :
           i \in 1..Len(rootObjectIds)}

\* SceneObjectRenderer's effect after mount: MeshRegistry.register(id, group);
\* the group carries the transform props of the stored object
MountVisual(id) ==
  /\ id \in Rendered
  /\ id \notin DOMAIN meshRegistry
  /\ meshRegistry' = register(meshRegistry, id, objects[id].transform)
  /\ UNCHANGED <<history, historyIndex, timers, sideVars, objects, objectKeys, rootObjectIds,
                 selectedIds, transformMode,
                 transformSpace, dragRef, vec3a, pointerCapture, orbitEnabled,
                 isTransformDragging, isRightMouseDown, fly, gesture>>

\* SceneObjectRenderer's effect cleanup on unmount: MeshRegistry.unregister(id)
UnmountVisual(id) ==
  /\ id \in DOMAIN meshRegistry
  /\ id \notin Rendered
  /\ meshRegistry' = unregister(meshRegistry, id)
  /\ UNCHANGED <<history, historyIndex, timers, sideVars, objects, objectKeys, rootObjectIds,
                 selectedIds, transformMode,
                 transformSpace, dragRef, vec3a, pointerCapture, orbitEnabled,
                 isTransformDragging, isRightMouseDown, fly, gesture>>

(* ----------------------- fly camera controller ------------------------ *)

\* the movement field a key drives while the secondary button is held
MoveField(key) ==
  CASE key = "w" -> "moveForward"
    [] key = "s" -> "moveBackward"
    [] key = "a" -> "moveLeft"
    [] key = "d" -> "moveRight"
    [] key = "q" -> "moveDown"
    [] key = "e" -> "moveUp"
    [] OTHER -> Null

MoveFields == {"moveForward", "moveBackward", "moveLeft", "moveRight", "moveUp", "moveDown"}

HeldFields == {f \in MoveFields : fly[f]}

\* onKeyDown (capture phase): ignored unless the secondary button is held;
\* a movement key sets its field and stops the propagation of the event
flyKeyStops(key) == fly.isRightMouseDown /\ MoveField(key) # Null

flyOnKeyDown(key) ==
  IF flyKeyStops(key) THEN [fly EXCEPT ![MoveField(key)] = TRUE] ELSE fly

\* onKeyUp: a movement key clears its field
KeyUp(key) ==
  /\ fly' = IF MoveField(key) # Null THEN [fly EXCEPT ![MoveField(key)] = FALSE] ELSE fly
  /\ UNCHANGED <<history, historyIndex, timers, sideVars, objects, objectKeys, rootObjectIds,
                 selectedIds, transformMode,
                 transformSpace, meshRegistry, dragRef, vec3a, pointerCapture,
                 orbitEnabled, isTransformDragging, isRightMouseDown, gesture>>

\* setDown gone wrong: the callbacks are called whether or not the value changes
setDownNotifyingAlways(value) ==
  /\ isRightMouseDown' = value
  /\ notified' = IF subscribers = <<>> THEN <<>>
                 ELSE [i \in 1..Len(subscribers) |-> <<subscribers[i], value>>]

\* rightMouseState.setDown(value): on a change the value is stored and every
\* callback of the Set is called with it
setDown(value) ==
  /\ isRightMouseDown' = value
  /\ notified' = IF isRightMouseDown = value \/ subscribers = <<>> THEN <<>>
                 ELSE [i \in 1..Len(subscribers) |-> <<subscribers[i], value>>]

\* rightMouseState.subscribe(callback): Set.add
subscribe(subs, callback) ==
  IF callback \in Range(subs) THEN subs ELSE Append(subs, callback)

\* the function subscribe returns: Set.delete
unsubscribe(subs, callback) == Without(subs, callback)

\* transformDragState.setDragging(value)
setDragging(value) == isTransformDragging' = value

\* onMouseDown on the canvas: the secondary button enters fly mode
onMouseDown(button) ==
  /\ IF button = 2
     THEN /\ fly' = [fly EXCEPT !.isRightMouseDown = TRUE,
                              !.lastMouseX = cursor[1], !.lastMouseY = cursor[2],
                              !.usePointerLock = lockSupported]
          /\ setDown(TRUE)
          /\ orbitEnabled' = FALSE
          /\ pointerLock' = IF lockSupported /\ pointerLock = "none"
                            THEN "requested" ELSE pointerLock
     ELSE UNCHANGED <<fly, isRightMouseDown, orbitEnabled, notified, pointerLock>>
  /\ UNCHANGED <<history, historyIndex, timers, subscribers, flyMounted, unmountedFlying, pendingEffects, cursor,
                 lockSupported, speedVars, focusVars, panelVars, objects, objectKeys, rootObjectIds,
                 selectedIds, transformMode,
                 transformSpace, meshRegistry, dragRef, vec3a, pointerCapture,
                 isTransformDragging, gesture>>

\* onMouseUp gone wrong: the movement fields are left as they are
onMouseUpKeepingKeys(button) ==
  /\ IF button = 2
     THEN /\ fly' = [fly EXCEPT !.isRightMouseDown = FALSE]
          /\ setDown(FALSE)
          /\ orbitEnabled' = TRUE
          /\ pointerLock' = IF pointerLock = "locked" THEN "none" ELSE pointerLock
     ELSE UNCHANGED <<fly, isRightMouseDown, orbitEnabled, notified, pointerLock>>
  /\ UNCHANGED <<history, historyIndex, timers, subscribers, flyMounted, unmountedFlying, pendingEffects, cursor,
                 lockSupported, speedVars, focusVars, panelVars, objects, objectKeys, rootObjectIds,
                 selectedIds, transformMode,
                 transformSpace, meshRegistry, dragRef, vec3a, pointerCapture,
                 isTransformDragging, gesture>>

\* onMouseUp on the window: releasing the secondary button leaves fly mode,
\* re-enables the orbit controller and clears the movement fields
onMouseUp(button) ==
  /\ IF button = 2
     THEN /\ fly' = [fly EXCEPT !.isRightMouseDown = FALSE,
                              !.moveForward = FALSE, !.moveBackward = FALSE,
                              !.moveLeft = FALSE, !.moveRight = FALSE,
                              !.moveUp = FALSE, !.moveDown = FALSE]
          /\ setDown(FALSE)
          /\ orbitEnabled' = TRUE
          /\ pointerLock' = IF pointerLock = "locked" THEN "none" ELSE pointerLock
     ELSE UNCHANGED <<fly, isRightMouseDown, orbitEnabled, notified, pointerLock>>
  /\ UNCHANGED <<history, historyIndex, timers, subscribers, flyMounted, unmountedFlying, pendingEffects, cursor,
                 lockSupported, speedVars, focusVars, panelVars, objects, objectKeys, rootObjectIds,
                 selectedIds, transformMode,
                 transformSpace, meshRegistry, dragRef, vec3a, pointerCapture,
                 isTransformDragging, gesture>>

\* the state the fly controller's look and speed handlers never touch
gizmoVars == <<storeVars, timers, flagVars, focusVars, panelVars, meshRegistry, dragRef, vec3a, pointerCapture,
               orbitEnabled, isTransformDragging, isRightMouseDown, gesture>>

\* the look deltas a frame has not consumed yet stay within this bound
MaxLook == 2

\* onMouseMove gone wrong: the fallback does not remember the position
onMouseMoveKeepingLast(client, movement) ==
  IF ~fly.isRightMouseDown THEN fly
  ELSE IF pointerLock = "locked"
  THEN [fly EXCEPT !.mouseDeltaX = @ + movement[1], !.mouseDeltaY = @ + movement[2]]
  ELSE [fly EXCEPT !.mouseDeltaX = @ + (client[1] - fly.lastMouseX),
                   !.mouseDeltaY = @ + (client[2] - fly.lastMouseY)]

\* onMouseMove(e) on the window, e.clientX/Y = client, e.movementX/Y = movement
onMouseMove(client, movement) ==
  IF ~fly.isRightMouseDown THEN fly
  ELSE IF pointerLock = "locked"
  THEN [fly EXCEPT !.mouseDeltaX = @ + movement[1], !.mouseDeltaY = @ + movement[2]]
  ELSE [fly EXCEPT !.mouseDeltaX = @ + (client[1] - fly.lastMouseX),
                   !.mouseDeltaY = @ + (client[2] - fly.lastMouseY),
                   !.lastMouseX = client[1], !.lastMouseY = client[2]]

\* the mouse moves.  Under pointer lock the cursor stays where it is and the
\* event carries the movement; otherwise the cursor goes to `to` and the
\* event carries its new position.
MouseMove(to, movement) ==
  /\ cursor' = IF pointerLock = "locked" THEN cursor ELSE to
  /\ fly' = IF ~flyMounted THEN fly
            ELSE IF pointerLock = "locked" THEN onMouseMove(cursor, movement)
            ELSE onMouseMove(to, <<to[1] - cursor[1], to[2] - cursor[2]>>)
  /\ Abs(fly'.mouseDeltaX) <= MaxLook
  /\ Abs(fly'.mouseDeltaY) <= MaxLook
  /\ UNCHANGED <<gizmoVars, flyMounted, unmountedFlying, pendingEffects, pointerLock, lockSupported, speedVars>>

\* onPointerLockChange, with locked = (document.pointerLockElement is the canvas)
onPointerLockChange(locked) ==
  IF ~locked /\ fly.isRightMouseDown THEN [fly EXCEPT !.usePointerLock = FALSE] ELSE fly

\* onPointerLockError
onPointerLockError == [fly EXCEPT !.usePointerLock = FALSE]

\* the browser grants the pending request: pointerlockchange
LockGranted ==
  /\ pointerLock = "requested"
  /\ pointerLock' = "locked"
  /\ fly' = IF flyMounted THEN onPointerLockChange(TRUE) ELSE fly
  /\ UNCHANGED <<gizmoVars, flyMounted, unmountedFlying, pendingEffects, cursor, lockSupported, speedVars>>

\* the browser denies the pending request: pointerlockerror
LockError ==
  /\ pointerLock = "requested"
  /\ pointerLock' = "none"
  /\ fly' = IF flyMounted THEN onPointerLockError ELSE fly
  /\ UNCHANGED <<gizmoVars, flyMounted, unmountedFlying, pendingEffects, cursor, lockSupported, speedVars>>

\* the browser ends the lock (Escape, loss of focus): pointerlockchange
LockRevoked ==
  /\ pointerLock = "locked"
  /\ pointerLock' = "none"
  /\ fly' = IF flyMounted THEN onPointerLockChange(FALSE) ELSE fly
  /\ UNCHANGED <<gizmoVars, flyMounted, unmountedFlying, pendingEffects, cursor, lockSupported, speedVars>>

\* useFlyControls gone wrong: the cleanup only removes the listeners
FlyCleanupKeepingFlag == UNCHANGED <<isRightMouseDown, notified>>

\* the cleanup of the listener effect, after the listeners are removed
FlyCleanup == setDown(FALSE)

\* the component that calls useFlyControls unmounts
FlyUnmount ==
  /\ flyMounted
  /\ flyMounted' = FALSE
  /\ unmountedFlying' = fly.isRightMouseDown
  /\ FlyCleanup
  /\ UNCHANGED <<storeVars, timers, subscribers, pendingEffects, meshRegistry, dragRef, vec3a, pointerCapture,
                 orbitEnabled, isTransformDragging, gesture, fly, lookVars, speedVars,
                 focusVars, panelVars>>

\* mounting gone wrong: the state ref of the unmounted component is used again
FlyMountKeepingState ==
  /\ ~flyMounted
  /\ flyMounted' = TRUE
  /\ UNCHANGED <<gizmoVars, unmountedFlying, pendingEffects, fly, lookVars, speedVars>>

\* it mounts again: a fresh state ref, whose speed the sync effect sets to
\* the store's cameraSpeed, and the listeners
FlyMount ==
  /\ ~flyMounted
  /\ flyMounted' = TRUE
  /\ fly' = [flyInit EXCEPT !.speed = cameraSpeed]
  /\ globalSpeed' = cameraSpeed
  /\ UNCHANGED <<gizmoVars, unmountedFlying, pendingEffects, lookVars, cameraSpeed>>

\* mousedown on the canvas and mouseup on the window, while the listeners
\* are installed
MouseDown(button) ==
  /\ flyMounted
  /\ onMouseDown(button)

MouseUp(button) ==
  /\ flyMounted
  /\ onMouseUp(button)

(* Speeds are fractions <<numerator, denominator>> in lowest terms, with a  *)
(* positive denominator.                                                     *)

Rat(n, d) == LET g == Gcd(Abs(n), d) IN <<n \div g, d \div g>>

RatMul(a, b) == Rat(a[1] * b[1], a[2] * b[2])

RatAdd(a, b) == Rat(a[1] * b[2] + b[1] * a[2], a[2] * b[2])

RatLess(a, b) == a[1] * b[2] < b[1] * a[2]

\* Math.max and Math.min
RatMax(a, b) == IF RatLess(a, b) THEN b ELSE a

RatMin(a, b) == IF RatLess(b, a) THEN b ELSE a

\* Number(x.toFixed(1)) for x >= 0: the nearest tenth, halves upwards
ToFixed1(a) == Rat((20 * a[1] + a[2]) \div (2 * a[2]), 10)

\* numerators and denominators of the speeds the model follows
MaxSpeedTerm == 4000

SpeedExact(a) == a[1] <= MaxSpeedTerm /\ a[2] <= MaxSpeedTerm

\* onWheel: the speed after a notch, deltaY > 0 being a notch down
WheelSpeed(speed, deltaY) ==
  LET delta == IF deltaY > 0 THEN <<4, 5>> ELSE <<5, 4>>
  IN  RatMax(<<1, 10>>, RatMin(<<50, 1>>, RatMul(speed, delta)))

\* onWheel(e) on the canvas: while the secondary button is held the speed is
\* scaled and clamped, copied to globalSpeed and stored with setCameraSpeed;
\* the sync effect then writes the same value again
onWheel(deltaY) ==
  /\ IF fly.isRightMouseDown
     THEN /\ SpeedExact(RatMul(fly.speed, IF deltaY > 0 THEN <<4, 5>> ELSE <<5, 4>>))
          /\ fly' = [fly EXCEPT !.speed = WheelSpeed(fly.speed, deltaY)]
          /\ globalSpeed' = WheelSpeed(fly.speed, deltaY)
          /\ cameraSpeed' = WheelSpeed(fly.speed, deltaY)
     ELSE UNCHANGED <<fly, globalSpeed, cameraSpeed>>
  /\ UNCHANGED <<gizmoVars, flyMounted, unmountedFlying, pendingEffects, lookVars>>

Wheel(deltaY) ==
  /\ flyMounted
  /\ onWheel(deltaY)

\* setCameraSpeed(speed) from the speed control, followed by the fly
\* controller's sync effect when it is mounted
SpeedControlSets(speed) ==
  /\ cameraSpeed' = speed
  /\ IF flyMounted
     THEN fly' = [fly EXCEPT !.speed = speed] /\ globalSpeed' = speed
     ELSE UNCHANGED <<fly, globalSpeed>>

\* CameraSpeedControl, handleInputBlur with parseFloat(inputValue) = typed;
\* <<>> stands for NaN
handleInputBlur(typed) ==
  /\ LET val == IF typed = <<>> THEN cameraSpeed ELSE typed
     IN  SpeedControlSets(RatMax(<<1, 10>>, RatMin(<<100, 1>>, val)))
  /\ UNCHANGED <<gizmoVars, flyMounted, unmountedFlying, pendingEffects, lookVars>>

\* CameraSpeedControl, a press on the control (handleMouseDown records the
\* speed) followed by handleMouseMove delta pixels to the right
handleMouseMove(delta) ==
  /\ LET newVal == RatMax(<<1, 10>>,
                          RatMin(<<100, 1>>, RatAdd(cameraSpeed, Rat(delta, 20))))
     IN  SpeedControlSets(ToFixed1(newVal))
  /\ UNCHANGED <<gizmoVars, flyMounted, unmountedFlying, pendingEffects, lookVars>>

(* ------------------------- keyboard shortcuts ------------------------- *)

\* Space cycles select -> translate -> rotate -> scale -> select
NextMode(mode) ==
  CASE mode = "select" -> "translate"
    [] mode = "translate" -> "rotate"
    [] mode = "rotate" -> "scale"
    [] OTHER -> "select"

\* the transform mode after a key-down without Ctrl while not flying
ModeKey(key, mode) ==
  CASE key = " " -> NextMode(mode)
    [] key = "q" -> "select"
    [] key = "w" -> "translate"
    [] key = "e" -> "rotate"
    [] key = "r" -> "scale"
    [] OTHER -> mode

\* selectedIds.forEach((id) => removeObject(id))
RECURSIVE removeEach(_, _)
removeEach(st, ids) ==
  IF ids = <<>> THEN st ELSE removeEach(removeObjectIn(st, Head(ids)), Tail(ids))

\* ids that addObject may draw: not in the store and not registered
FreeIds(st) == Ids \ (DOMAIN st.objects \cup DOMAIN meshRegistry)

\* selectedIds.forEach((id) => duplicateObject(id)): a copy of each selected
\* object that is in the store, under the same parent, without children
RECURSIVE duplicateEach(_, _)
duplicateEach(st, ids) ==
  IF ids = <<>> THEN st
  ELSE IF Head(ids) \notin DOMAIN st.objects \/ FreeIds(st) = {}
       THEN duplicateEach(st, Tail(ids))
       ELSE LET newId == CHOOSE x \in FreeIds(st) : TRUE
            IN  duplicateEach(duplicateObjectIn(st, Head(ids), newId), Tail(ids))

\* handleKeyDown gone wrong: the mode keys are read while flying too
shortcutModeWhileFlying(key, ctrl) ==
  IF ~ctrl THEN ModeKey(key, transformMode) ELSE transformMode

\* handleKeyDown: the transform mode after the shortcut handler has run; the
\* mode keys are read only without Ctrl and while the flying flag is false
shortcutMode(key, ctrl) ==
  IF ~ctrl /\ ~isRightMouseDown THEN ModeKey(key, transformMode) ELSE transformMode

\* handleKeyDown: the store after the shortcut handler has run
shortcutStore(key, ctrl) ==
  LET st1 == IF ~ctrl /\ ~isRightMouseDown /\ key = "delete"
             THEN removeEach(StoreState, selectedIds)
             ELSE StoreState
      st2 == IF ctrl /\ key = "d" THEN duplicateEach(st1, selectedIds) ELSE st1
      st3 == IF ctrl /\ key = "a" THEN [st2 EXCEPT !.selected = st2.keys] ELSE st2
  IN  IF key = "Escape" THEN [st3 EXCEPT !.selected = <<>>] ELSE st3

\* handleKeyDown: objects and history after the Ctrl shortcuts of undo (z)
\* and redo (Shift+z, written Z, and y) have run on the objects objs
shortcutHistory(key, ctrl, objs) ==
  LET h == [HistoryState EXCEPT !.objects = objs]
  IN  IF ctrl /\ key = "z" THEN undoIn(h)
      ELSE IF ctrl /\ key \in {"Z", "y"} THEN redoIn(h)
      ELSE h

\* A key-down: the fly controller's capture-phase listener runs first, the
\* shortcut handler runs unless the propagation was stopped.
KeyDown(key, ctrl) ==
  /\ flyKeyStops(key) => Cardinality(HeldFields \ {MoveField(key)}) < MaxHeld
  /\ key = "d" /\ ctrl /\ ~flyKeyStops(key) =>
       Cardinality(FreeIds(StoreState)) >=
         Cardinality(Range(selectedIds) \cap DOMAIN objects)
  /\ fly' = flyOnKeyDown(key)
  /\ IF flyKeyStops(key)
     THEN UNCHANGED storeVars
     ELSE LET st == shortcutStore(key, ctrl)
              h == shortcutHistory(key, ctrl, st.objects)
          IN  /\ objects' = h.objects
              /\ history' = h.history
              /\ historyIndex' = h.historyIndex
              /\ objectKeys' = st.keys
              /\ rootObjectIds' = st.roots
              /\ selectedIds' = st.selected
              /\ transformMode' = shortcutMode(key, ctrl)
              /\ UNCHANGED transformSpace
  /\ UNCHANGED <<timers, sideVars, meshRegistry, dragRef, pointerCapture, orbitEnabled,
                 isTransformDragging, isRightMouseDown, gesture>>
  /\ Rerender(vec3a)

(* ------------------------- gizmo drag engine -------------------------- *)

\* the handles each gizmo renders: arrows, plane corners and the centre for
\* translate and scale, the three arcs for rotate
HandleAxes(mode) ==
  CASE mode = "translate" -> Axes
    [] mode = "scale" -> Axes
    [] mode = "rotate" -> {"X", "Y", "Z"}
    [] OTHER -> {}

AxisVector(axis) ==
  CASE axis = "X" -> <<1, 0, 0>>
    [] axis = "Y" -> <<0, 1, 0>>
    [] axis = "Z" -> <<0, 0, 1>>
    [] OTHER -> Zero3

\* moveAxis gone wrong: every handle lets all three components through
AxisMaskOpen(axis) == <<1, 1, 1>>

\* moveAxis: the components a translate handle lets through
AxisMask(axis) ==
  <<IF axis \in {"X", "XY", "XZ"} THEN 1 ELSE 0,
    IF axis \in {"Y", "XY", "YZ"} THEN 1 ELSE 0,
    IF axis \in {"Z", "XZ", "YZ"} THEN 1 ELSE 0>>

\* handlePointerDown: the constraint plane normal chosen for the handle
PlaneNormal(mode, space, axis, eye, quaternion, old) ==
  IF mode \in {"translate", "scale"}
  THEN LET n == CASE axis \in {"X", "Y", "Z"} ->
                       normalize(Cross(Cross(AxisVector(axis), eye), AxisVector(axis)))
                  [] axis = "XY" -> <<0, 0, 1>>
                  [] axis = "XZ" -> <<0, 1, 0>>
                  [] axis = "YZ" -> <<1, 0, 0>>
                  [] axis = "XYZ" -> eye
                  [] OTHER -> old
       IN  IF space = "local" /\ mode = "translate"
           THEN applyQuaternion(n, quaternion) ELSE n
  ELSE IF mode = "rotate"
  THEN LET n == IF axis \in {"X", "Y", "Z"} THEN AxisVector(axis) ELSE old
       IN  IF space = "local" THEN applyQuaternion(n, quaternion) ELSE n
  ELSE old

\* handlePointerDown: what is left in _vec3a when the handler returns
Vec3aAfterDown(mode, axis) ==
  IF mode \in {"translate", "scale"} /\ axis \in {"X", "Y", "Z"}
  THEN AxisVector(axis) ELSE Zero3

\* targetMesh gone wrong: without a registered renderable the drag starts
\* from the stored transform
DownTargetFromStore ==
  IF useSelectedObject = <<>> THEN <<>>
  ELSE IF RegistryHas(selectedIds[1]) THEN <<meshRegistry[selectedIds[1]]>>
  ELSE <<objects[selectedIds[1]].transform>>

\* handlePointerDown: targetMesh, the selected object's renderable; <<>>
\* stands for null (no selected object, or none registered for it)
DownTarget ==
  IF useSelectedObject = <<>> \/ ~RegistryHas(selectedIds[1])
  THEN <<>> ELSE <<meshRegistry[selectedIds[1]]>>

\* handlePointerDown(e, axis): e.point = point, e.ray from the camera at
\* cameraPosition through point
handlePointerDown(axis, cameraPosition, point) ==
  IF DownTarget = <<>>
  THEN /\ gesture' = [gesture EXCEPT !.refused = TRUE]
       /\ UNCHANGED <<history, historyIndex, timers, sideVars, objects, objectKeys, rootObjectIds,
                      selectedIds, transformMode,
                      transformSpace, meshRegistry, dragRef, vec3a, pointerCapture,
                      orbitEnabled, isTransformDragging, isRightMouseDown, fly>>
  ELSE
    LET id == selectedIds[1]
        targetMesh == DownTarget[1]
        quaternion == EulerToMat(targetMesh.rotation)
        eye == normalize(Sub(cameraPosition, targetMesh.position))
        planeNormal == PlaneNormal(transformMode, transformSpace, axis, eye,
                                   quaternion, dragRef.planeNormal)
        planeConstant == 0 - Dot(targetMesh.position, planeNormal)
        ray == RayThrough(cameraPosition, point)
        newStart == intersectPlane(ray, planeNormal, planeConstant)
    IN  /\ IntersectExact(ray, planeNormal, planeConstant)
        /\ pointerCapture' = TRUE
        /\ orbitEnabled' = FALSE
        /\ setDragging(TRUE)
        /\ dragRef' = [active |-> TRUE, axis |-> axis,
                       startPoint |-> IF newStart # <<>> THEN newStart[1] ELSE point,
                       startObjectPosition |-> targetMesh.position,
                       startObjectRotation |-> targetMesh.rotation,
                       startObjectScale |-> targetMesh.scale,
                       startQuaternion |-> quaternion,
                       planeNormal |-> planeNormal,
                       planeConstant |-> planeConstant]
        /\ vec3a' = Vec3aAfterDown(transformMode, axis)
        /\ gesture' = [phase |-> "dragging", target |-> id, pre |-> targetMesh,
                       startHit |-> newStart, commits |-> 0, moves |-> 0,
                       refused |-> FALSE]
        /\ UNCHANGED <<history, historyIndex, timers, sideVars, objects, objectKeys, rootObjectIds,
                       selectedIds, transformMode,
                       transformSpace, meshRegistry, isRightMouseDown, fly>>

\* translate gone wrong: the start point is not subtracted
TranslateMoveFromOrigin(state, space, current) ==
  IF state.axis = "XYZ"
  THEN Add(state.startObjectPosition, current)
  ELSE IF space = "local"
  THEN Add(state.startObjectPosition,
           applyQuaternion(
             Multiply(applyQuaternion(current, Transpose(state.startQuaternion)),
                      AxisMask(state.axis)),
             state.startQuaternion))
  ELSE Add(state.startObjectPosition, Multiply(current, AxisMask(state.axis)))

\* handlePointerMove, translate: the new position of the target
TranslateMove(state, space, current) ==
  LET delta == Sub(current, state.startPoint)
  IN  IF state.axis = "XYZ"
      THEN Add(state.startObjectPosition, delta)
      ELSE IF space = "local"
      THEN Add(state.startObjectPosition,
               applyQuaternion(
                 Multiply(applyQuaternion(delta, Transpose(state.startQuaternion)),
                          AxisMask(state.axis)),
                 state.startQuaternion))
      ELSE Add(state.startObjectPosition, Multiply(delta, AxisMask(state.axis)))

\* v.sub(normal.clone().multiplyScalar(v.dot(normal))).normalize() for the
\* unit normal n / |n|
ProjectExact(v, n) ==
  LengthSq(n) = 0 \/ \A i \in 1..3 : Divides(LengthSq(n), Dot(v, n) * n[i])

ProjectOnPlane(v, n) ==
  IF LengthSq(n) = 0 THEN normalize(v)
  ELSE normalize(Sub(v, <<ExactDiv(Dot(v, n) * n[1], LengthSq(n)),
                          ExactDiv(Dot(v, n) * n[2], LengthSq(n)),
                          ExactDiv(Dot(v, n) * n[3], LengthSq(n))>>))

\* handlePointerMove, rotate: the signed angle from the start direction to
\* the current direction about the plane normal
RotateAngleExact(state, center, current) ==
  /\ ProjectExact(Sub(state.startPoint, center), state.planeNormal)
  /\ ProjectExact(Sub(current, center), state.planeNormal)
  /\ LET startVec == ProjectOnPlane(Sub(state.startPoint, center), state.planeNormal)
         currentVec == ProjectOnPlane(Sub(current, center), state.planeNormal)
     IN  Atan2Exact(Dot(Cross(startVec, currentVec), state.planeNormal),
                    Dot(startVec, currentVec))

RotateAngle(state, center, current) ==
  LET startVec == ProjectOnPlane(Sub(state.startPoint, center), state.planeNormal)
      currentVec == ProjectOnPlane(Sub(current, center), state.planeNormal)
      sinAngle == Dot(Cross(startVec, currentVec), state.planeNormal)
      cosAngle == Dot(startVec, currentVec)
  IN  Atan2(sinAngle, cosAngle)

\* rotate gone wrong: the turn is applied in the object's frame in both spaces
RotateMoveLocalOrder(state, space, angle) ==
  MatMul(state.startQuaternion, setFromAxisAngle(state.planeNormal, angle))

\* handlePointerMove, rotate: the new orientation of the target
RotateMove(state, space, angle) ==
  LET quat == setFromAxisAngle(state.planeNormal, angle)
  IN  IF space = "local"
      THEN MatMul(state.startQuaternion, quat)
      ELSE MatMul(quat, state.startQuaternion)

\* handlePointerMove, scale: the direction the sign test uses
ScaleAxisVec(axis) ==
  CASE axis = "X" -> <<1, 0, 0>>
    [] axis = "Y" -> <<0, 1, 0>>
    [] axis = "Z" -> <<0, 0, 1>>
    [] axis = "XY" -> normalize(<<1, 1, 0>>)
    [] axis = "XZ" -> normalize(<<1, 0, 1>>)
    [] axis = "YZ" -> normalize(<<0, 1, 1>>)
    [] axis = "XYZ" -> normalize(<<1, 1, 1>>)
    [] OTHER -> Zero3

\* handlePointerMove, scale: scaleFactor = sign * currentDist / startDist is
\* applied to the start scale; the result is on the grid when both distances
\* are whole, the start distance is not 0 and the products divide
ScaleSign(state, space, center, current) ==
  LET axisVec == IF space = "local"
                 THEN applyQuaternion(ScaleAxisVec(state.axis), state.startQuaternion)
                 ELSE ScaleAxisVec(state.axis)
  IN  IF Dot(Sub(current, center), axisVec) > 0 THEN 1 ELSE -1

ScaleExact(state, center, current) ==
  /\ DistExact(state.startPoint, center)
  /\ DistExact(current, center)
  /\ distanceTo(state.startPoint, center) # 0
  /\ \A i \in 1..3 : Divides(distanceTo(state.startPoint, center),
                             state.startObjectScale[i] * distanceTo(current, center))

ScaleMove(state, space, center, current) ==
  LET startDist == distanceTo(state.startPoint, center)
      currentDist == distanceTo(current, center)
      sign == ScaleSign(state, space, center, current)
      Times(i) == ExactDiv(state.startObjectScale[i] * sign * currentDist, startDist)
      s == state.startObjectScale
  IN  IF state.axis = "XYZ"
      THEN <<Times(1), Times(2), Times(3)>>
      ELSE <<IF state.axis \in {"X", "XY", "XZ"} THEN Times(1) ELSE s[1],
             IF state.axis \in {"Y", "XY", "YZ"} THEN Times(2) ELSE s[2],
             IF state.axis \in {"Z", "XZ", "YZ"} THEN Times(3) ELSE s[3]>>

InBox(v, m) == \A i \in 1..3 : Abs(v[i]) <= m

\* handlePointerMove: the point the drag math reads from _vec3a.  A ray that
\* misses the plane leaves _vec3a as it was, and the test of _vec3a that
\* follows is true of every vector object.
CurrentPoint(ray) ==
  LET hit == intersectPlane(ray, dragRef.planeNormal, dragRef.planeConstant)
  IN  IF hit # <<>> THEN hit[1] ELSE vec3a

\* handlePointerMove: the target's transform after the move
MoveTransform(targetMesh, current) ==
  CASE transformMode = "translate" ->
         [targetMesh EXCEPT !.position = TranslateMove(dragRef, transformSpace, current)]
    [] transformMode = "rotate" ->
         [targetMesh EXCEPT !.rotation =
            MatToEuler(RotateMove(dragRef, transformSpace,
                                  RotateAngle(dragRef, targetMesh.position, current)))]
    [] transformMode = "scale" ->
         [targetMesh EXCEPT !.scale =
            ScaleMove(dragRef, transformSpace, targetMesh.position, current)]
    [] OTHER -> targetMesh

MoveExact(targetMesh, current) ==
  CASE transformMode = "rotate" ->
         /\ RotateAngleExact(dragRef, targetMesh.position, current)
         /\ AxisAngleExact(dragRef.planeNormal,
                           RotateAngle(dragRef, targetMesh.position, current))
    [] transformMode = "scale" -> ScaleExact(dragRef, targetMesh.position, current)
    [] OTHER -> TRUE

\* handlePointerMove gone wrong: every move is committed to the store
handlePointerMoveCommitting(ray) ==
  IF ~dragRef.active \/ useSelectedObject = <<>> \/ ~RegistryHas(selectedIds[1])
  THEN UNCHANGED vars
  ELSE
    LET id == selectedIds[1]
        targetMesh == meshRegistry[id]
        current == CurrentPoint(ray)
    IN  /\ IntersectExact(ray, dragRef.planeNormal, dragRef.planeConstant)
        /\ MoveExact(targetMesh, current)
        /\ InBox(MoveTransform(targetMesh, current).position, MaxCoord)
        /\ InBox(MoveTransform(targetMesh, current).scale, MaxScale)
        /\ meshRegistry' = [meshRegistry EXCEPT ![id] = MoveTransform(targetMesh, current)]
        /\ objects' = updateTransformIn(objects, id, MoveTransform(targetMesh, current))
        /\ vec3a' = current
        /\ gesture' = [gesture EXCEPT !.moves = 1]
        /\ UNCHANGED <<history, historyIndex, timers, sideVars, objectKeys, rootObjectIds,
                       selectedIds, transformMode,
                       transformSpace, dragRef, pointerCapture, orbitEnabled,
                       isTransformDragging, isRightMouseDown, fly>>

\* handlePointerMove(e): raycaster.ray = ray
handlePointerMove(ray) ==
  IF ~dragRef.active \/ useSelectedObject = <<>> \/ ~RegistryHas(selectedIds[1])
  THEN UNCHANGED vars
  ELSE
    LET id == selectedIds[1]
        targetMesh == meshRegistry[id]
        current == CurrentPoint(ray)
    IN  /\ IntersectExact(ray, dragRef.planeNormal, dragRef.planeConstant)
        /\ MoveExact(targetMesh, current)
        /\ InBox(MoveTransform(targetMesh, current).position, MaxCoord)
        /\ InBox(MoveTransform(targetMesh, current).scale, MaxScale)
        /\ meshRegistry' = [meshRegistry EXCEPT ![id] = MoveTransform(targetMesh, current)]
        /\ vec3a' = current
        /\ gesture' = [gesture EXCEPT !.moves = 1]
        /\ UNCHANGED <<history, historyIndex, timers, sideVars, objects, objectKeys, rootObjectIds,
                       selectedIds, transformMode,
                       transformSpace, dragRef, pointerCapture, orbitEnabled,
                       isTransformDragging, isRightMouseDown, fly>>

\* handlePointerUp gone wrong: nothing is reset when the target is gone
handlePointerUpNeedsTarget ==
  IF ~dragRef.active
  THEN UNCHANGED vars
  ELSE IF useSelectedObject = <<>> \/ ~RegistryHas(selectedIds[1])
  THEN /\ gesture' = [gesture EXCEPT !.phase = "completed"]
       /\ UNCHANGED <<history, historyIndex, timers, sideVars, objects, objectKeys, rootObjectIds,
                      selectedIds, transformMode,
                      transformSpace, meshRegistry, dragRef, vec3a, pointerCapture,
                      orbitEnabled, isTransformDragging, isRightMouseDown, fly>>
  ELSE
    /\ pointerCapture' = FALSE
    /\ dragRef' = [dragRef EXCEPT !.active = FALSE]
    /\ orbitEnabled' = TRUE
    /\ setDragging(FALSE)
    /\ objects' = updateTransformIn(objects, selectedIds[1], meshRegistry[selectedIds[1]])
    /\ vec3a' = Zero3
    /\ gesture' = [gesture EXCEPT !.phase = "completed", !.commits = @ + 1]
    /\ UNCHANGED <<history, historyIndex, timers, sideVars, objectKeys, rootObjectIds,
                   selectedIds, transformMode,
                   transformSpace, meshRegistry, isRightMouseDown, fly>>

\* handlePointerUp(e)
handlePointerUp ==
  IF ~dragRef.active
  THEN UNCHANGED vars
  ELSE
    /\ pointerCapture' = FALSE
    /\ dragRef' = [dragRef EXCEPT !.active = FALSE]
    /\ orbitEnabled' = TRUE
    /\ setDragging(FALSE)
    /\ IF useSelectedObject # <<>> /\ RegistryHas(selectedIds[1])
       THEN /\ objects' = updateTransformIn(objects, selectedIds[1],
                                            meshRegistry[selectedIds[1]])
            /\ vec3a' = Zero3
            /\ gesture' = [gesture EXCEPT !.phase = "completed", !.commits = @ + 1]
       ELSE /\ UNCHANGED <<objects, vec3a>>
            /\ gesture' = [gesture EXCEPT !.phase = "completed"]
    /\ UNCHANGED <<history, historyIndex, timers, sideVars, objectKeys, rootObjectIds,
                   selectedIds, transformMode,
                   transformSpace, meshRegistry, isRightMouseDown, fly>>

(* -------------------------- hierarchy panel --------------------------- *)

\* isDescendant gone wrong: only the parent of the start node is compared
isDescendantDirectOnly(objs, currentId, ancestorId, fuel) ==
  <<currentId \in DOMAIN objs /\ objs[currentId].parentId = ancestorId>>

\* the while loop of isDescendant from currentId on: <<TRUE>> or <<FALSE>>
\* as it returns, <<>> when it never returns, walking a ring of parent ids
\* that does not hold ancestorId.  After as many steps as there are nodes
\* the walk has come by one of them twice.
RECURSIVE isDescendantFrom(_, _, _, _)
isDescendantFrom(objs, currentId, ancestorId, fuel) ==
  IF currentId = Null \/ currentId \notin DOMAIN objs THEN <<FALSE>>
  ELSE IF objs[currentId].parentId = ancestorId THEN <<TRUE>>
  ELSE IF fuel = 0 THEN <<>>
  ELSE isDescendantFrom(objs, objs[currentId].parentId, ancestorId, fuel - 1)

\* isDescendant(objects, potentialDescendantId, ancestorId)
isDescendant(objs, potentialDescendantId, ancestorId) ==
  isDescendantFrom(objs, potentialDescendantId, ancestorId, Cardinality(DOMAIN objs))

\* canReparent gone wrong: every target is allowed
canReparentAlways(objs, draggedId, targetId) == <<TRUE>>

\* canReparent(objects, draggedId, targetId)
canReparent(objs, draggedId, targetId) ==
  IF targetId = Null THEN <<TRUE>>
  ELSE IF draggedId = targetId THEN <<FALSE>>
  ELSE LET descends == isDescendant(objs, targetId, draggedId)
       IN  IF descends = <<>> THEN <<>> ELSE <<~descends[1]>>

\* handleDrop(e, targetId, draggedId, dropPosition): the store calls the
\* handler makes: the arguments of its reparentObject call, of the
\* reorderObject call it makes at once, and of the one it leaves to
\* setTimeout; <<>> for a call it does not make
handleDropCalls(objs, targetId, draggedId, dropPosition) ==
  LET none == [reparent |-> <<>>, reorder |-> <<>>, timer |-> <<>>]
  IN  IF draggedId = Null \/ targetId = Null \/ draggedId = targetId THEN none
      ELSE IF draggedId \notin DOMAIN objs \/ targetId \notin DOMAIN objs THEN none
      ELSE IF dropPosition = "inside"
      THEN IF canReparent(objs, draggedId, targetId) = <<TRUE>>
           THEN [none EXCEPT !.reparent = <<draggedId, targetId>>]
           ELSE none
      ELSE IF dropPosition \in {"before", "after"}
      THEN IF objs[draggedId].parentId = objs[targetId].parentId
           THEN [none EXCEPT !.reorder = <<draggedId, targetId, dropPosition>>]
           ELSE IF canReparent(objs, draggedId, objs[targetId].parentId) = <<TRUE>>
           THEN [none EXCEPT !.reparent = <<draggedId, objs[targetId].parentId>>,
                             !.timer = <<draggedId, targetId, dropPosition>>]
           ELSE none
      ELSE none

\* the canReparent call of handleDrop, if it makes one, returns
handleDropEnds(objs, targetId, draggedId, dropPosition) ==
  draggedId \in DOMAIN objs /\ targetId \in DOMAIN objs /\ draggedId # targetId =>
    /\ dropPosition = "inside" => canReparent(objs, draggedId, targetId) # <<>>
    /\ dropPosition \in {"before", "after"}
         /\ objs[draggedId].parentId # objs[targetId].parentId
         => canReparent(objs, draggedId, objs[targetId].parentId) # <<>>

\* a drop on the row of targetId in the hierarchy panel
HandleDrop(targetId, draggedId, dropPosition) ==
  LET calls == handleDropCalls(objects, targetId, draggedId, dropPosition)
      st1 == IF calls.reparent # <<>>
             THEN reparentObjectIn(StoreState, calls.reparent[1], calls.reparent[2])
             ELSE StoreState
      st2 == IF calls.reorder # <<>>
             THEN reorderObjectIn(st1, calls.reorder[1], calls.reorder[2], calls.reorder[3])
             ELSE st1
  IN  /\ handleDropEnds(objects, targetId, draggedId, dropPosition)
      /\ calls.reparent # <<>> => ReparentExact(objects, calls.reparent[1], calls.reparent[2])
      /\ calls.timer # <<>> => Len(timers) < MaxTimers
      /\ StoreTakes(st2)
      /\ timers' = IF calls.timer # <<>> THEN Append(timers, calls.timer) ELSE timers

\* the callback handleDrop left to setTimeout runs: reorderObject
Timeout ==
  /\ timers # <<>>
  /\ StoreTakes(reorderObjectIn(StoreState, Head(timers)[1], Head(timers)[2],
                                Head(timers)[3]))
  /\ timers' = Tail(timers)

(* ---------------------------- the editor ------------------------------ *)

\* camera positions the pointer rays start from
Cameras == {<<4, 4, 4>>}

\* keys of the keyboard events
Keys == {"w", "e", "r", "q", " ", "delete", "Escape"}

\* mouse buttons: primary and secondary
Buttons == {0, 2}

\* pointer events reach the drag handlers through the gizmo's handle meshes;
\* a pointer-down carries the button that was pressed (e.button), which
\* neither the handle's onPointerDown prop nor handlePointerDown reads
PointerDown(button, axis, cameraPosition, point) ==
  /\ button \in Buttons
  /\ GizmoMounted
  /\ axis \in HandleAxes(transformMode)
  /\ cameraPosition # point
  /\ handlePointerDown(axis, cameraPosition, point)

PointerMove(cameraPosition, point) ==
  /\ GizmoMounted
  /\ cameraPosition # point
  /\ handlePointerMove(RayThrough(cameraPosition, point))

PointerUp ==
  /\ GizmoMounted
  /\ handlePointerUp

\* Edit > Undo of the menu bar: undo().  The gesture history notes an undo
\* that follows a completed drag.
Undo ==
  /\ LET h == undoIn(HistoryState)
     IN  /\ objects' = h.objects
         /\ history' = h.history
         /\ historyIndex' = h.historyIndex
  /\ gesture' = [gesture EXCEPT !.phase = IF @ = "completed" THEN "undone" ELSE @]
  /\ UNCHANGED <<objectKeys, rootObjectIds, selectedIds, transformMode, transformSpace,
                 timers, sideVars, meshRegistry, dragRef, pointerCapture, orbitEnabled,
                 isTransformDragging, isRightMouseDown, fly>>
  /\ Rerender(vec3a)

\* Edit > Redo of the menu bar: redo().  The gesture history notes a redo
\* that follows such an undo.
Redo ==
  /\ LET h == redoIn(HistoryState)
     IN  /\ objects' = h.objects
         /\ history' = h.history
         /\ historyIndex' = h.historyIndex
  /\ gesture' = [gesture EXCEPT !.phase = IF @ = "undone" THEN "redone" ELSE @]
  /\ UNCHANGED <<objectKeys, rootObjectIds, selectedIds, transformMode, transformSpace,
                 timers, sideVars, meshRegistry, dragRef, pointerCapture, orbitEnabled,
                 isTransformDragging, isRightMouseDown, fly>>
  /\ Rerender(vec3a)

(* Specification Spec: every event of the editor in every order.  The      *)
(* pointer is pressed on the X handle and aimed at a point of its plane.     *)

EditorAxes == {"X"}

EditorPoints == {<<1, 0, 0>>}

Next ==
  \/ \E id \in Ids : AddObject(id, Zero3, Null)
  \/ \E id \in Ids, additive \in BOOLEAN : SelectObject(id, additive)
  \/ \E mode \in TransformModes : SetTransformMode(mode)
  \/ \E space \in TransformSpaces : SetTransformSpace(space)
  \/ \E id \in Ids : MountVisual(id)
  \/ \E id \in Ids : UnmountVisual(id)
  \/ \E key \in Keys, ctrl \in BOOLEAN : KeyDown(key, ctrl)
  \/ \E key \in Keys : KeyUp(key)
  \/ \E button \in Buttons : onMouseDown(button)
  \/ \E button \in Buttons : onMouseUp(button)
  \/ \E button \in Buttons, axis \in EditorAxes, c \in Cameras, p \in EditorPoints :
       PointerDown(button, axis, c, p)
  \/ \E c \in Cameras, p \in EditorPoints : PointerMove(c, p)
  \/ PointerUp

Spec == Init /\ [][Next]_vars

(* Specification SpecDrag: the arithmetic of one drag: a handle is pressed  *)
(* once, while no gesture has begun yet.  The scene holds one               *)
(* object, stored, rendered, registered and selected, as it is after        *)
(* AddObject, MountVisual and SelectObject; its transform is one that       *)
(* earlier drags or edits in the inspector leave behind.  The pointer is    *)
(* pressed on any handle and aimed at points on and off the handles'        *)
(* planes, and at one above the camera, whose ray leaves every plane of the *)
(* scene behind it.                                                         *)

StartPositions == {Zero3, <<0, 1, -1>>}

StartRotations == {Zero3, <<0, 1, 0>>}

DragPoints == {<<1, 0, 0>>, <<2, 0, 0>>, <<5, 0, 0>>, <<1, 1, -1>>, <<2, 1, -1>>,
               <<0, 0, 1>>, <<4, 4, 5>>}

InitDrag ==
  \E position \in StartPositions, rotation \in StartRotations :
    LET transform == [defaultTransform EXCEPT !.position = position,
                                              !.rotation = rotation]
        st == addObjectIn([objects |-> <<>>, keys |-> <<>>, roots |-> <<>>,
                           selected |-> <<>>], "a", transform, Null)
    IN  /\ objects = st.objects
        /\ objectKeys = st.keys
        /\ rootObjectIds = st.roots
        /\ selectedIds = <<"a">>
        /\ transformMode = "translate"
        /\ transformSpace = "world"
        /\ history = <<>>
        /\ historyIndex = -1
        /\ timers = <<>>
        /\ meshRegistry = [x \in {"a"} |-> transform]
        /\ dragRef = dragRefInit
        /\ vec3a = Zero3
        /\ pointerCapture = FALSE
        /\ orbitEnabled = TRUE
        /\ isTransformDragging = FALSE
        /\ isRightMouseDown = FALSE
        /\ fly = flyInit
        /\ gesture = gestureInit
        /\ SideInit

NextDrag ==
  \/ \E mode \in TransformModes : SetTransformMode(mode)
  \/ \E space \in TransformSpaces : SetTransformSpace(space)
  \/ \E button \in Buttons, axis \in Axes, c \in Cameras, p \in DragPoints :
       gesture.phase = "none" /\ PointerDown(button, axis, c, p)
  \/ \E c \in Cameras, p \in DragPoints : PointerMove(c, p)
  \/ PointerUp

SpecDrag == InitDrag /\ [][NextDrag]_vars

(* Specification SpecUndo: one drag of the object of SpecDrag on a           *)
(* translate handle, followed by undo and redo.                              *)

UndoAxes == {"X", "XY"}

UndoPoints == {<<1, 0, 0>>, <<2, 0, 0>>, <<1, 1, -1>>, <<2, 1, -1>>, <<2, 2, 0>>}

NextUndo ==
  \/ \E button \in Buttons, axis \in UndoAxes, c \in Cameras, p \in UndoPoints :
       gesture.phase = "none" /\ PointerDown(button, axis, c, p)
  \/ \E c \in Cameras, p \in UndoPoints : PointerMove(c, p)
  \/ PointerUp
  \/ Undo
  \/ Redo

SpecUndo == InitDrag /\ [][NextUndo]_vars

(* Specification SpecGraph: the store's scene-graph calls in every order    *)
(* and with every argument, on up to three nodes without renderables.  A     *)
(* parent id is null, the id of a node of the store, or Ghost, an id that    *)
(* no node ever has.                                                         *)

GraphIds == {"a", "b", "c"}

Ghost == "ghost"

GraphParents == {Null, Ghost}

DropPositions == {"before", "after"}

NextGraph ==
  \/ \E id \in GraphIds, parentId \in DOMAIN objects \cup GraphParents :
       AddObject(id, Zero3, parentId)
  \/ \E id \in GraphIds : RemoveObject(id)
  \/ \E id \in GraphIds, newId \in GraphIds : DuplicateObject(id, newId)
  \/ \E id \in GraphIds, newParentId \in DOMAIN objects \cup GraphParents :
       ReparentObject(id, newParentId)
  \/ \E id \in GraphIds, targetId \in GraphIds, position \in DropPositions :
       ReorderObject(id, targetId, position)

SpecGraph == Init /\ [][NextGraph]_vars

(* Specification SpecHierarchy: the scene graph as the hierarchy panel      *)
(* builds it: nodes are added at the root and removed, rows are dropped on   *)
(* rows at every position, and the pending timers run.                       *)

DropInputs == {"before", "after", "inside", Null}

NextHierarchy ==
  \/ \E id \in GraphIds : AddObject(id, Zero3, Null)
  \/ \E id \in GraphIds : RemoveObject(id)
  \/ \E targetId \in GraphIds, draggedId \in GraphIds, dropPosition \in DropInputs :
       HandleDrop(targetId, draggedId, dropPosition)
  \/ Timeout

SpecHierarchy == Init /\ [][NextHierarchy]_vars

(* Specification SpecRegistry: register and unregister calls on the         *)
(* renderable registry in every order, for three ids and four nodes.         *)

RegistryNodes ==
  {[defaultTransform EXCEPT !.position = p] :
     p \in {Zero3, <<1, 0, 0>>, <<0, 1, 0>>, <<0, 0, 1>>}}

NextRegistry ==
  \/ \E id \in GraphIds, mesh \in RegistryNodes : Register(id, mesh)
  \/ \E id \in GraphIds : Unregister(id)

SpecRegistry == Init /\ [][NextRegistry]_vars

(* Specification SpecRotate: one rotate drag of a single object at the      *)
(* origin whose orientation is the identity or a quarter turn about X, Y or  *)
(* Z, in world and in local space, on every rotate handle, with the pointer *)
(* aimed at the unit points of the coordinate axes.                          *)

RotateStarts == {Zero3, <<1, 0, 0>>, <<0, 1, 0>>, <<0, 0, 1>>}

RotatePoints == {<<1, 0, 0>>, <<0, 1, 0>>, <<0, 0, 1>>,
                 <<-1, 0, 0>>, <<0, -1, 0>>, <<0, 0, -1>>}

InitRotate ==
  \E rotation \in RotateStarts :
    LET transform == [defaultTransform EXCEPT !.rotation = rotation]
        st == addObjectIn([objects |-> <<>>, keys |-> <<>>, roots |-> <<>>,
                           selected |-> <<>>], "a", transform, Null)
    IN  /\ objects = st.objects
        /\ objectKeys = st.keys
        /\ rootObjectIds = st.roots
        /\ selectedIds = <<"a">>
        /\ transformMode = "rotate"
        /\ transformSpace = "world"
        /\ history = <<>>
        /\ historyIndex = -1
        /\ timers = <<>>
        /\ meshRegistry = [x \in {"a"} |-> transform]
        /\ dragRef = dragRefInit
        /\ vec3a = Zero3
        /\ pointerCapture = FALSE
        /\ orbitEnabled = TRUE
        /\ isTransformDragging = FALSE
        /\ isRightMouseDown = FALSE
        /\ fly = flyInit
        /\ gesture = gestureInit
        /\ SideInit

NextRotate ==
  \/ \E space \in TransformSpaces : gesture.phase = "none" /\ SetTransformSpace(space)
  \/ \E button \in Buttons, axis \in Axes, c \in Cameras, p \in RotatePoints :
       gesture.phase = "none" /\ PointerDown(button, axis, c, p)
  \/ \E c \in Cameras, p \in RotatePoints : PointerMove(c, p)
  \/ PointerUp

SpecRotate == InitRotate /\ [][NextRotate]_vars

(* Specification SpecScale: one scale drag of a single object at the        *)
(* origin, on every scale handle, in world and in local space, with the      *)
(* pointer aimed at points on both sides of the object's centre.             *)

ScaleStarts == {<<1, 1, 1>>, <<2, 1, 1>>}

ScalePoints == {<<1, 0, 0>>, <<2, 0, 0>>, <<-1, 0, 0>>, <<-2, 0, 0>>,
                <<0, 1, 0>>, <<0, -2, 0>>}

InitScale ==
  \E scale \in ScaleStarts :
    LET transform == [defaultTransform EXCEPT !.scale = scale]
        st == addObjectIn([objects |-> <<>>, keys |-> <<>>, roots |-> <<>>,
                           selected |-> <<>>], "a", transform, Null)
    IN  /\ objects = st.objects
        /\ objectKeys = st.keys
        /\ rootObjectIds = st.roots
        /\ selectedIds = <<"a">>
        /\ transformMode = "scale"
        /\ transformSpace = "world"
        /\ history = <<>>
        /\ historyIndex = -1
        /\ timers = <<>>
        /\ meshRegistry = [x \in {"a"} |-> transform]
        /\ dragRef = dragRefInit
        /\ vec3a = Zero3
        /\ pointerCapture = FALSE
        /\ orbitEnabled = TRUE
        /\ isTransformDragging = FALSE
        /\ isRightMouseDown = FALSE
        /\ fly = flyInit
        /\ gesture = gestureInit
        /\ SideInit

NextScale ==
  \/ \E space \in TransformSpaces : gesture.phase = "none" /\ SetTransformSpace(space)
  \/ \E button \in Buttons, axis \in Axes, c \in Cameras, p \in ScalePoints :
       gesture.phase = "none" /\ PointerDown(button, axis, c, p)
  \/ \E c \in Cameras, p \in ScalePoints : PointerMove(c, p)
  \/ PointerUp

SpecScale == InitScale /\ [][NextScale]_vars

(* Specification SpecFlags: the two arbitration flags as modules: set,     *)
(* subscribe and unsubscribe calls in every order, with three callbacks.     *)

Callbacks == {"f", "g", "h"}

\* rightMouseState.subscribe(callback)
Subscribe(callback) ==
  /\ subscribers' = subscribe(subscribers, callback)
  /\ UNCHANGED <<storeVars, timers, notified, meshRegistry, dragRef, vec3a, pointerCapture,
                 orbitEnabled, isTransformDragging, isRightMouseDown, fly, gesture,
                 flyMounted, unmountedFlying, pendingEffects, lookVars, speedVars, focusVars, panelVars>>

\* a call of the function subscribe(callback) returned
Unsubscribe(callback) ==
  /\ subscribers' = unsubscribe(subscribers, callback)
  /\ UNCHANGED <<storeVars, timers, notified, meshRegistry, dragRef, vec3a, pointerCapture,
                 orbitEnabled, isTransformDragging, isRightMouseDown, fly, gesture,
                 flyMounted, unmountedFlying, pendingEffects, lookVars, speedVars, focusVars, panelVars>>

\* rightMouseState.setDown(value)
SetDown(value) ==
  /\ setDown(value)
  /\ UNCHANGED <<storeVars, timers, subscribers, meshRegistry, dragRef, vec3a, pointerCapture,
                 orbitEnabled, isTransformDragging, fly, gesture,
                 flyMounted, unmountedFlying, pendingEffects, lookVars, speedVars, focusVars, panelVars>>

\* transformDragState.setDragging(value)
SetDragging(value) ==
  /\ setDragging(value)
  /\ UNCHANGED <<storeVars, timers, sideVars, meshRegistry, dragRef, vec3a, pointerCapture,
                 orbitEnabled, isRightMouseDown, fly, gesture>>

NextFlags ==
  \/ \E callback \in Callbacks : Subscribe(callback)
  \/ \E callback \in Callbacks : Unsubscribe(callback)
  \/ \E value \in BOOLEAN : SetDown(value)
  \/ \E value \in BOOLEAN : SetDragging(value)

SpecFlags == Init /\ [][NextFlags]_vars

(* Specification SpecFly: the fly controller with the browser's pointer     *)
(* lock: the secondary button, mouse moves on a small screen, the lock       *)
(* granted, denied and revoked, a canvas whose requestPointerLock throws,    *)
(* and the controller unmounting and mounting again.                         *)

CursorPoints == {<<0, 0>>, <<1, 0>>, <<0, 1>>}

Movements == {<<1, 0>>, <<0, -1>>}

InitFly ==
  /\ objects = <<>>
  /\ objectKeys = <<>>
  /\ rootObjectIds = <<>>
  /\ selectedIds = <<>>
  /\ transformMode = "translate"
  /\ transformSpace = "world"
  /\ history = <<>>
  /\ historyIndex = -1
  /\ timers = <<>>
  /\ meshRegistry = <<>>
  /\ dragRef = dragRefInit
  /\ vec3a = Zero3
  /\ pointerCapture = FALSE
  /\ orbitEnabled = TRUE
  /\ isTransformDragging = FALSE
  /\ isRightMouseDown = FALSE
  /\ fly = flyInit
  /\ gesture = gestureInit
  /\ subscribers = <<>>
  /\ notified = <<>>
  /\ flyMounted = TRUE
  /\ unmountedFlying = FALSE
  /\ pendingEffects = {}
  /\ cursor = <<0, 0>>
  /\ pointerLock = "none"
  /\ lockSupported \in BOOLEAN
  /\ cameraSpeed = <<1, 1>>
  /\ globalSpeed = <<1, 1>>
  /\ camera = [position |-> <<40, 40, 40>>, target |-> Zero3]
  /\ animations = <<>>
  /\ now = 0
  /\ filter = [searchQuery |-> <<>>, typeFilters |-> <<>>]
  /\ filteredIds = <<>>

NextFly ==
  \/ \E button \in Buttons : MouseDown(button)
  \/ \E button \in Buttons : MouseUp(button)
  \/ \E to \in CursorPoints, movement \in Movements : MouseMove(to, movement)
  \/ LockGranted
  \/ LockError
  \/ LockRevoked
  \/ FlyUnmount
  \/ FlyMount

SpecFly == InitFly /\ [][NextFly]_vars

(* Specification SpecSpeed: the fly speed: the wheel while flying and while *)
(* not, the speed control's text field and its drag.                         *)

WheelDeltas == {-100, 100}

\* values typed into the speed control: 0.05, 1, 50, 1000 and no number
TypedSpeeds == {<<1, 20>>, <<1, 1>>, <<50, 1>>, <<1000, 1>>, <<>>}

\* pixels the speed control is dragged
SpeedDrags == {-40, 10, 2000}

NextSpeed ==
  \/ \E button \in Buttons : MouseDown(button)
  \/ \E button \in Buttons : MouseUp(button)
  \/ \E deltaY \in WheelDeltas : Wheel(deltaY)
  \/ \E typed \in TypedSpeeds : handleInputBlur(typed)
  \/ \E delta \in SpeedDrags : handleMouseMove(delta)

SpecSpeed == Init /\ [][NextSpeed]_vars

(* ------------------------------ properties ---------------------------- *)

\* the point where the ray of a pointer-move meets the constraint plane of
\* the drag in progress, <<>> when it misses
MoveHit(c, p) == intersectPlane(RayThrough(c, p), dragRef.planeNormal, dragRef.planeConstant)

\* the index of a single-axis handle's coordinate
AxisIndex(axis) == CASE axis = "X" -> 1 [] axis = "Y" -> 2 [] OTHER -> 3

ModeKeys == {"w", "e", "r", "q", " "}

\* the ids reached from id by following one or more parent ids
RECURSIVE AncestorsFrom(_, _, _)
AncestorsFrom(objs, id, fuel) ==
  IF id \notin DOMAIN objs \/ fuel = 0 THEN {}
  ELSE LET p == objs[id].parentId
       IN  IF p = Null THEN {} ELSE {p} \cup AncestorsFrom(objs, p, fuel - 1)

Ancestors(objs, id) == AncestorsFrom(objs, id, Cardinality(DOMAIN objs))

\* C1: a secondary-button-down on the canvas while the dragging flag is true
\* leaves the flying flag false.  The code sets it: onMouseDown never reads
\* the dragging flag.
C1_DragBlocksFly ==
  [][isTransformDragging /\ onMouseDown(2) => ~isRightMouseDown']_vars

\* C2: a drag-move leaves the whole store as it was just before the move.
C2_MoveLeavesStore ==
  [][(\E c \in Cameras, p \in DragPoints : PointerMove(c, p)) => UNCHANGED storeVars]_vars

\* a move has changed the live renderable, which now differs from the store
C2_Witness ==
  /\ gesture.phase = "dragging"
  /\ gesture.moves = 1
  /\ meshRegistry["a"] # objects["a"].transform

C4_CommitEqualsLive ==
  [][dragRef.active /\ PointerUp =>
       objects'[gesture.target].transform = meshRegistry[gesture.target]]_vars

\* a drag has ended with the store holding a rotation and a position that
\* are not the ones the drag started from
C4_Witness ==
  /\ gesture.phase = "completed"
  /\ gesture.commits = 1
  /\ objects["a"].transform.rotation # gesture.pre.rotation
  /\ objects["a"].transform.position # gesture.pre.position

\* C5: every drag-move handled in translate mode and world space on the X
\* handle leaves the target's Y and Z equal to their values before the drag.
C5_TranslateXKeepsYZ ==
  [][(/\ dragRef.active
      /\ dragRef.axis = "X"
      /\ transformMode = "translate"
      /\ transformSpace = "world"
      /\ \E c \in Cameras, p \in DragPoints : PointerMove(c, p))
     => /\ meshRegistry'[gesture.target].position[2] = gesture.pre.position[2]
        /\ meshRegistry'[gesture.target].position[3] = gesture.pre.position[3]]_vars

\* a world translate drag on X has moved a target along X whose Y and Z are
\* not 0, by a move whose pointer also went up and sideways
C5_Witness ==
  /\ gesture.phase = "dragging"
  /\ gesture.moves = 1
  /\ dragRef.axis = "X"
  /\ transformMode = "translate"
  /\ transformSpace = "world"
  /\ gesture.pre.position = <<0, 1, -1>>
  /\ meshRegistry["a"].position = <<1, 1, -1>>
  /\ vec3a[2] # dragRef.startPoint[2]

\* C6: every drag-move handled in translate mode and world space on a
\* single-axis handle, whose ray meets the constraint plane, leaves the
\* target's coordinate on that axis equal to its value before the drag plus
\* the difference, on that axis, of the current and the starting
\* intersection points.
C6_TranslateAxisDelta ==
  [][\A c \in Cameras, p \in DragPoints :
       (/\ dragRef.active
        /\ dragRef.axis \in {"X", "Y", "Z"}
        /\ transformMode = "translate"
        /\ transformSpace = "world"
        /\ gesture.startHit # <<>>
        /\ MoveHit(c, p) # <<>>
        /\ PointerMove(c, p))
       => meshRegistry'[gesture.target].position[AxisIndex(dragRef.axis)]
            = gesture.pre.position[AxisIndex(dragRef.axis)]
              + MoveHit(c, p)[1][AxisIndex(dragRef.axis)]
              - gesture.startHit[1][AxisIndex(dragRef.axis)]]_vars

\* the example, in half units: the target at [0,0,0], the start hit at
\* [0.5,0,0] and the move hit at [2.5,0,0]; [2,0,0] is committed
C6_Witness ==
  /\ gesture.phase = "completed"
  /\ gesture.commits = 1
  /\ gesture.moves = 1
  /\ dragRef.axis = "X"
  /\ transformMode = "translate"
  /\ transformSpace = "world"
  /\ gesture.pre.position = Zero3
  /\ gesture.startHit = <<<<1, 0, 0>>>>
  /\ objects["a"].transform.position = <<4, 0, 0>>

\* C7: while the flying flag is true a key-down of W, E, R, Q or Space
\* leaves the transform mode unchanged.
C7_FlyingKeepsMode ==
  [][\A key \in ModeKeys, ctrl \in BOOLEAN :
       isRightMouseDown /\ KeyDown(key, ctrl) => transformMode' = transformMode]_vars

\* W was pressed while flying and the mode is still not translate
C7_Witness ==
  /\ isRightMouseDown
  /\ fly.moveForward
  /\ transformMode = "scale"

\* C8: a pointer-up handled while the drag session is active leaves the
\* session inactive, the dragging flag false and the orbit controller
\* enabled, whatever became of the target.
C8_PointerUpEndsDrag ==
  [][dragRef.active /\ PointerUp =>
       ~dragRef'.active /\ ~isTransformDragging' /\ orbitEnabled' /\ ~pointerCapture']_vars

\* a drag has ended, without a commit, after its target was deleted
C8_Witness ==
  /\ gesture.phase = "completed"
  /\ gesture.commits = 0
  /\ gesture.target \notin DOMAIN objects
  /\ ~dragRef.active
  /\ ~isTransformDragging

\* C9: a pointer-down on a handle while the selected object has no
\* registered renderable changes nothing: the drag session, the dragging
\* flag, the orbit controller and the pointer capture stay as they were.
C9_DownWithoutRenderable ==
  [][\A button \in Buttons, axis \in EditorAxes, c \in Cameras, p \in EditorPoints :
       PointerDown(button, axis, c, p) /\ ~RegistryHas(selectedIds[1])
       => UNCHANGED <<dragRef, isTransformDragging, orbitEnabled, pointerCapture,
                      meshRegistry, storeVars>>]_vars

\* a pointer-down was refused for want of a renderable and the engine is idle
C9_Witness ==
  /\ gesture.refused
  /\ gesture.phase = "none"
  /\ GizmoMounted
  /\ ~RegistryHas(selectedIds[1])
  /\ ~dragRef.active
  /\ ~isTransformDragging
  /\ orbitEnabled
  /\ ~pointerCapture

\* C10: a drag-move whose ray misses the constraint plane leaves the
\* target's position, rotation and scale as they were.  The code goes on
\* with whatever the helper vector held before.
C10_MissLeavesTransform ==
  [][\A c \in Cameras, p \in DragPoints :
       dragRef.active /\ MoveHit(c, p) = <<>> /\ PointerMove(c, p)
       => UNCHANGED meshRegistry]_vars


\* C11: whenever the gizmo is not mounted, the dragging flag is false and the
\* orbit controller is enabled (unless the fly controller holds it disabled).
\* The code resets both only in handlePointerUp, which an unmounted gizmo
\* never receives: a drag cut short by Escape, delete or the select mode
\* leaves the flag true and the orbit controller disabled.
C11_UnmountEndsDrag ==
  ~GizmoMounted => ~isTransformDragging /\ (isRightMouseDown \/ orbitEnabled)

\* C12: an Escape key-down while the flying flag is true leaves the selection
\* as it was.  The code clears it: the Escape branch of handleKeyDown is
\* outside the test of the flying flag.
C12_FlyingEscapeKeepsSelection ==
  [][isRightMouseDown /\ (\E ctrl \in BOOLEAN : KeyDown("Escape", ctrl))
       => selectedIds' = selectedIds]_vars


\* C13: a pointer-down on a gizmo handle with a button other than the
\* primary one leaves the drag engine idle and the dragging flag false.  The
\* code starts the drag: handlePointerDown never reads e.button.
C13_OnlyPrimaryStartsDrag ==
  [][\A button \in Buttons \ {0}, axis \in EditorAxes, c \in Cameras, p \in EditorPoints :
       PointerDown(button, axis, c, p) => ~dragRef'.active /\ ~isTransformDragging']_vars


\* C14: whenever the selection is non-empty (and its first id is in the
\* store), the object the gizmo manipulates is the first selected id, also
\* when two or more ids are selected.  The code has no target then:
\* useSelectedObject returns null unless exactly one id is selected.
C14_TargetIsFirstSelected ==
  selectedIds # <<>> /\ selectedIds[1] \in DOMAIN objects
    => useSelectedObject = <<selectedIds[1]>>


\* C15: one undo after the end of a drag puts the target's stored transform
\* back to its value before the drag.  The code leaves the committed value:
\* handlePointerUp commits through updateTransform, which records no
\* command, so the history is empty and undo() does nothing.
C15_UndoRestoresPreDrag ==
  gesture.phase = "undone" /\ gesture.target \in DOMAIN objects
    => objects[gesture.target].transform = gesture.pre


\* C16: after any sequence of store calls no node is its own ancestor.  The
\* code has no refusal in reparentObject: reparentObject(id, id), or one
\* onto a descendant, sets the parent id and pushes the id on the child
\* list all the same.
C16_ReparentKeepsAcyclic ==
  \A id \in DOMAIN objects : id \notin Ancestors(objects, id)

\* C17: for all nodes p and ids c, c is in p's child-id list exactly when c
\* is in the store and c's parent id is p.
C17_ChildListsMatchParents ==
  \A p \in DOMAIN objects, c \in GraphIds \cup {Ghost} :
    c \in Range(objects[p].childIds) <=> (c \in DOMAIN objects /\ objects[c].parentId = p)

\* two siblings under a parent stand in the opposite of their key order,
\* which only a reparent or a reorder brings about
C17_Witness ==
  \E p \in DOMAIN objects :
    /\ Len(objects[p].childIds) = 2
    /\ indexOf(objectKeys, objects[p].childIds[1]) > indexOf(objectKeys, objects[p].childIds[2])


\* C18: a drop of a node on itself or on one of its own descendants, at any
\* of the positions inside, before and after, makes no reparentObject call.
C18_DropOnDescendantNeverReparents ==
  \A targetId \in GraphIds, draggedId \in GraphIds, dropPosition \in DropInputs \ {Null} :
    draggedId = targetId \/ draggedId \in Ancestors(objects, targetId)
      => handleDropCalls(objects, targetId, draggedId, dropPosition).reparent = <<>>

\* drops have nested a node two levels deep, the last of them between rows
\* of different parents, its timer still pending
C18_Witness ==
  /\ timers # <<>>
  /\ \E targetId \in DOMAIN objects, draggedId \in DOMAIN objects :
       /\ draggedId \in Ancestors(objects, targetId)
       /\ objects[targetId].parentId # draggedId

\* C19: canReparent is true for a null target, false for the node itself,
\* false for a descendant of the node and true for any other target;
\* isDescendant(objects, d, a) is true exactly when a is reached from d by
\* following one or more parent ids, and false for d = a and for a d that is
\* not in the store.
C19_ReparentChecks ==
  \A id \in GraphIds, target \in GraphIds :
    /\ canReparent(objects, id, Null) = <<TRUE>>
    /\ canReparent(objects, id, id) = <<FALSE>>
    /\ target # id =>
         canReparent(objects, id, target) = <<id \notin Ancestors(objects, target)>>
    /\ isDescendant(objects, id, target) = <<target \in Ancestors(objects, id)>>
    /\ isDescendant(objects, id, id) = <<FALSE>>
    /\ id \notin DOMAIN objects => isDescendant(objects, id, target) = <<FALSE>>

\* three nodes in a chain: the last descends from the first by two parent ids
C19_Witness ==
  \E d \in DOMAIN objects, a \in DOMAIN objects :
    /\ isDescendant(objects, d, a) = <<TRUE>>
    /\ objects[d].parentId # a
    /\ canReparent(objects, a, d) = <<FALSE>>
    /\ Cardinality(DOMAIN objects) = 3


\* C20: the registry is a plain map: after register(id, mesh), get(id) is
\* mesh, whatever was registered under id before; after unregister(id),
\* get(id) is undefined, whether or not id was registered; neither call
\* changes what get returns for another id.
C20_RegistryIsMap ==
  \A id \in GraphIds, mesh \in RegistryNodes :
    /\ get(register(meshRegistry, id, mesh), id) = <<mesh>>
    /\ get(unregister(meshRegistry, id), id) = <<>>
    /\ \A other \in GraphIds \ {id} :
         /\ get(register(meshRegistry, id, mesh), other) = get(meshRegistry, other)
         /\ get(unregister(meshRegistry, id), other) = get(meshRegistry, other)

\* two ids are registered with different nodes and a third is not
\* registered: a register call on a taken id and an unregister call on a
\* free id both have their case
C20_Witness ==
  /\ get(meshRegistry, "a") # <<>>
  /\ get(meshRegistry, "b") # <<>>
  /\ get(meshRegistry, "a") # get(meshRegistry, "b")
  /\ get(meshRegistry, "c") = <<>>

\* the part of v across the unit axis n
AcrossAxis(v, n) == Sub(v, MultiplyScalar(n, Dot(v, n)))

SameDirection(u, v) == Cross(u, v) = Zero3 /\ Dot(u, v) > 0

\* the rotation D keeps the axis n and turns the direction of from, seen
\* across n, into the direction of to
TurnsAbout(D, n, from, to) ==
  /\ applyQuaternion(n, D) = n
  /\ SameDirection(applyQuaternion(AcrossAxis(from, n), D), AcrossAxis(to, n))

\* the rotation that leads from the orientation the drag started with to
\* the live orientation after the step
DragTurn == MatMul(EulerToMat(meshRegistry'[gesture.target].rotation),
                   Transpose(EulerToMat(gesture.pre.rotation)))

\* C28: every drag-move handled in rotate mode and world space on the handle
\* of axis A, whose ray meets the plane, leaves the target's orientation
\* equal to its orientation before the drag followed by the rotation about
\* the world axis A that turns the direction of the starting intersection
\* point, seen from the target's centre, into that of the current one.
C28_WorldRotateAboutWorldAxis ==
  [][\A c \in Cameras, p \in RotatePoints :
       (/\ dragRef.active
        /\ transformMode = "rotate"
        /\ transformSpace = "world"
        /\ dragRef.axis \in {"X", "Y", "Z"}
        /\ dragRef.planeNormal = AxisVector(dragRef.axis)
        /\ MoveHit(c, p) # <<>>
        /\ AcrossAxis(Sub(dragRef.startPoint, meshRegistry[gesture.target].position),
                      dragRef.planeNormal) # Zero3
        /\ AcrossAxis(Sub(MoveHit(c, p)[1], meshRegistry[gesture.target].position),
                      dragRef.planeNormal) # Zero3
        /\ PointerMove(c, p))
       => TurnsAbout(DragTurn, AxisVector(dragRef.axis),
                     Sub(dragRef.startPoint, meshRegistry[gesture.target].position),
                     Sub(MoveHit(c, p)[1], meshRegistry[gesture.target].position))]_vars

\* the example: from the identity orientation a quarter-turn drag about
\* world Y, from the Z axis to the X axis, has committed [0, pi/2, 0]
C28_Witness ==
  /\ gesture.phase = "completed"
  /\ gesture.commits = 1
  /\ gesture.moves = 1
  /\ dragRef.axis = "Y"
  /\ transformMode = "rotate"
  /\ transformSpace = "world"
  /\ gesture.pre.rotation = Zero3
  /\ dragRef.startPoint = <<0, 0, 1>>
  /\ objects["a"].transform.rotation = <<0, 1, 0>>

\* a world drag about X has turned a target that started a quarter turn
\* about Y
C28_WitnessTurned ==
  /\ gesture.phase = "dragging"
  /\ gesture.moves = 1
  /\ dragRef.axis = "X"
  /\ transformMode = "rotate"
  /\ transformSpace = "world"
  /\ gesture.pre.rotation = <<0, 1, 0>>
  /\ meshRegistry["a"].rotation # gesture.pre.rotation

\* C29: every drag-move handled in rotate mode and local space on the handle
\* of axis A leaves the world direction of the target's own A axis as it was
\* before the drag.  The code turns the target about another axis when its
\* orientation at the pointer-down moves A: the axis, already taken to world
\* space by the pointer-down, is applied in the object's frame again.
C29_LocalRotateKeepsOwnAxis ==
  [][(/\ dragRef.active
      /\ transformMode = "rotate"
      /\ transformSpace = "local"
      /\ dragRef.axis \in {"X", "Y", "Z"}
      /\ dragRef.planeNormal = applyQuaternion(AxisVector(dragRef.axis),
                                               dragRef.startQuaternion)
      /\ \E c \in Cameras, p \in RotatePoints : PointerMove(c, p))
     => applyQuaternion(AxisVector(dragRef.axis),
                        EulerToMat(meshRegistry'[gesture.target].rotation))
          = applyQuaternion(AxisVector(dragRef.axis),
                            EulerToMat(gesture.pre.rotation))]_vars

\* the components of the scale a handle names
ScaleNamed(axis) ==
  {i \in 1..3 : axis = "XYZ" \/ AxisMask(axis)[i] = 1}

CallsTo(calls, callback) == {i \in DOMAIN calls : calls[i][1] = callback}

\* C21: setDown(v) with the value the flying flag already has leaves the
\* flag and the subscribers as they are and calls no callback; with another
\* value it stores v and calls every subscribed callback exactly once, with
\* v, and nothing else.  setDragging(v) stores v and changes nothing else;
\* the dragging flag has no callbacks to call.
C21_SetIsIdempotent ==
  [][\A v \in BOOLEAN :
       /\ SetDown(v) =>
            /\ isRightMouseDown' = v
            /\ subscribers' = subscribers
            /\ IF isRightMouseDown = v
               THEN notified' = <<>>
               ELSE /\ \A callback \in Range(subscribers) :
                         Cardinality(CallsTo(notified', callback)) = 1
                    /\ \A i \in DOMAIN notified' :
                         notified'[i][1] \in Range(subscribers) /\ notified'[i][2] = v
       /\ SetDragging(v) =>
            /\ isTransformDragging' = v
            /\ UNCHANGED <<isRightMouseDown, subscribers, notified>>]_vars

\* the flying flag has just been set to true with two callbacks subscribed,
\* and each has been called with true
C21_Witness ==
  /\ isRightMouseDown
  /\ Len(subscribers) = 2
  /\ Len(notified) = 2
  /\ \A callback \in Range(subscribers) : \E i \in DOMAIN notified :
       notified[i] = <<callback, TRUE>>

\* C22: the step in which the fly controller unmounts ends with the flying
\* flag false, whether or not the secondary button was held.
C22_UnmountClearsFlying ==
  [][FlyUnmount => ~isRightMouseDown']_vars

\* the controller is unmounted, its last state still has the secondary
\* button held, and the flying flag is false
C22_Witness ==
  /\ ~flyMounted
  /\ fly.isRightMouseDown
  /\ ~isRightMouseDown

\* C23: a pointer lock that is denied or revoked leaves the controller in
\* fly mode, and every mouse-move that arrives while the secondary button is
\* held and the canvas does not hold the lock (the request is pending, was
\* denied, threw, or the lock was revoked) adds to the look deltas the change
\* of the cursor position since the previous mouse event.
C23_FallbackLookDelta ==
  [][/\ LockError \/ LockRevoked =>
          /\ isRightMouseDown' = isRightMouseDown
          /\ fly'.isRightMouseDown = fly.isRightMouseDown
     /\ \A to \in CursorPoints, movement \in Movements :
          (/\ flyMounted
           /\ fly.isRightMouseDown
           /\ pointerLock # "locked"
           /\ MouseMove(to, movement))
          => /\ fly'.mouseDeltaX - fly.mouseDeltaX = cursor'[1] - cursor[1]
             /\ fly'.mouseDeltaY - fly.mouseDeltaY = cursor'[2] - cursor[2]]_vars

\* with the button down the lock has been denied or revoked, the handler has
\* switched to the fallback, and moves of the cursor are in the look deltas
C23_Witness ==
  /\ fly.isRightMouseDown
  /\ isRightMouseDown
  /\ lockSupported
  /\ pointerLock = "none"
  /\ ~fly.usePointerLock
  /\ cursor = <<1, 0>>
  /\ fly.mouseDeltaX = 2
  /\ fly.mouseDeltaY = -1

\* C26: in every reachable state the fly speed, in the store and in the fly
\* controller, is at least 0.1 and at most 50.  The speed control clamps to
\* [0.1, 100], so it stores speeds above 50.
C26_SpeedInRange ==
  \A speed \in {cameraSpeed, fly.speed, globalSpeed} :
    ~RatLess(speed, <<1, 10>>) /\ ~RatLess(<<50, 1>>, speed)


\* ---------------------------------------------------------------------------
\* Camera focus (CameraFocusHandler)
\* ---------------------------------------------------------------------------

\* the animation lasts 500 ms: two quarter seconds
FocusDuration == 2

MaxTime == 3

MaxAnimations == 2

\* scene.getObjectByName(id): no component gives its three.js object a name,
\* so the lookup finds nothing, <<>>
getObjectByName(id) == <<>>

\* easeT = 1 - (1 - t)^3 for t = elapsed / FocusDuration, in eighths
EaseEighths(elapsed) ==
  LET k == IF elapsed < FocusDuration THEN elapsed ELSE FocusDuration
      r == FocusDuration - k
  IN  8 - r * r * r

\* Vector3.lerpVectors(v1, v2, alpha) with alpha in eighths
LerpExact(v1, v2, eighths) ==
  \A i \in 1..3 : ((v2[i] - v1[i]) * eighths) % 8 = 0

lerpVectors(v1, v2, eighths) ==
  [i \in 1..3 |-> v1[i] + ((v2[i] - v1[i]) * eighths) \div 8]

\* a camera position three units from the target, the least distance of the
\* branch for a found renderable
focusPositionAtMinimum(position, direction) ==
  MultiplyScalar(Sub(position, MultiplyScalar(direction, 3)), 8)

\* the fallback branch: position.clone().sub(direction.multiplyScalar(5))
focusPosition(position, direction) ==
  MultiplyScalar(Sub(position, MultiplyScalar(direction, 5)), 8)

\* one run of an animate callback that started at startTime
animate(loop) ==
  LET elapsed == now - loop.startTime
      easeT == EaseEighths(elapsed)
  IN  /\ LerpExact(loop.startPosition, loop.newPosition, easeT)
      /\ LerpExact(loop.startTarget, loop.position, easeT)
      /\ camera' = [position |-> lerpVectors(loop.startPosition, loop.newPosition, easeT),
                    target |-> lerpVectors(loop.startTarget, loop.position, easeT)]

\* focusOnSelected() and the effect of CameraFocusHandler it triggers, which
\* ends with clearFocusTarget(); direction is the camera's world direction.
\* The first animate() runs at elapsed 0 and asks for the next frame.
Focus(direction) ==
  /\ selectedIds # <<>>
  /\ Len(animations) < MaxAnimations
  /\ LET focusTargetId == selectedIds[1]
     IN  IF focusTargetId \notin DOMAIN objects
         THEN UNCHANGED <<camera, animations>>
         ELSE LET position == objects[focusTargetId].transform.position
                  loop == [id |-> focusTargetId,
                           position |-> MultiplyScalar(position, 8),
                           newPosition |-> focusPosition(position, direction),
                           startPosition |-> camera.position,
                           startTarget |-> camera.target,
                           startTime |-> now]
              IN  /\ getObjectByName(focusTargetId) = <<>>
                  /\ animate(loop)
                  /\ animations' = Append(animations, loop)
  /\ UNCHANGED <<storeVars, timers, flagVars, flyMounted, unmountedFlying, pendingEffects, lookVars, speedVars, now,
                 panelVars, meshRegistry, dragRef, vec3a, pointerCapture, orbitEnabled,
                 isTransformDragging, isRightMouseDown, fly, gesture>>

\* the browser runs the oldest requested animate callback
AnimationFrame ==
  /\ animations # <<>>
  /\ LET loop == Head(animations)
     IN  /\ animate(loop)
         /\ animations' = IF now - loop.startTime < FocusDuration
                          THEN Append(Tail(animations), loop)
                          ELSE Tail(animations)
  /\ UNCHANGED <<storeVars, timers, flagVars, flyMounted, unmountedFlying, pendingEffects, lookVars, speedVars, now,
                 panelVars, meshRegistry, dragRef, vec3a, pointerCapture, orbitEnabled,
                 isTransformDragging, isRightMouseDown, fly, gesture>>

\* a quarter second passes
Tick ==
  /\ now < MaxTime
  /\ now' = now + 1
  /\ UNCHANGED <<storeVars, timers, flagVars, flyMounted, unmountedFlying, pendingEffects, lookVars, speedVars, camera,
                 animations, panelVars, meshRegistry, dragRef, vec3a, pointerCapture,
                 orbitEnabled, isTransformDragging, isRightMouseDown, fly, gesture>>

FocusPositions == {Zero3, <<8, 0, 8>>}

FocusDirections == {<<0, 0, -1>>}

NextFocus ==
  \/ \E id \in Ids, position \in FocusPositions : AddObject(id, position, Null)
  \/ \E id \in Ids : SelectObject(id, FALSE)
  \/ \E direction \in FocusDirections : Focus(direction)
  \/ AnimationFrame
  \/ Tick

SpecFocus == Init /\ [][NextFocus]_vars

\* C24: a focus request cancels the animation of the request before it, so
\* at most one animate loop is pending at any time
C24_OneFocusLoop == Len(animations) <= 1

\* the step in which the callback at the head of the queue runs for the last time
LastFrame ==
  /\ animations # <<>>
  /\ now - Head(animations).startTime >= FocusDuration
  /\ animations' = Tail(animations)
  /\ now' = now

\* C25: when the fallback animation of a focus request completes, the orbit
\* target is the stored position of the node and the camera is five units
\* from it
C25_FallbackFocusEnds ==
  [][LastFrame =>
       LET id == Head(animations).id
       IN  /\ camera'.target = MultiplyScalar(objects[id].transform.position, 8)
           /\ LengthSq(Sub(camera'.position, camera'.target)) = 25 * 64]_vars

C25_Witness ==
  /\ animations = <<>>
  /\ now >= FocusDuration
  /\ \E id \in DOMAIN objects :
       /\ objects[id].transform.position # Zero3
       /\ camera.target = MultiplyScalar(objects[id].transform.position, 8)
       /\ LengthSq(Sub(camera.position, camera.target)) = 25 * 64


\* ---------------------------------------------------------------------------
\* Hierarchy filter (useHierarchyState, filterObjects)
\* ---------------------------------------------------------------------------

\* strings are sequences of one-character strings
LowerChar(c) ==
  CASE c = "A" -> "a"
    [] c = "B" -> "b"
    [] OTHER -> c

toLowerCase(s) == [i \in 1..Len(s) |-> LowerChar(s[i])]

RECURSIVE trimStart(_)
trimStart(s) ==
  IF s # <<>> /\ Head(s) = " " THEN trimStart(Tail(s)) ELSE s

RECURSIVE trimEnd(_)
trimEnd(s) ==
  IF s # <<>> /\ s[Len(s)] = " " THEN trimEnd(SubSeq(s, 1, Len(s) - 1)) ELSE s

trim(s) == trimEnd(trimStart(s))

\* String.prototype.includes
includes(s, q) ==
  \E i \in 1..(Len(s) + 1) :
    /\ i + Len(q) - 1 <= Len(s)
    /\ SubSeq(s, i, i + Len(q) - 1) = q

\* matchesFilter(obj), with query the lower-cased, trimmed search query
matchesFilter(obj, query, typeFilters) ==
  IF typeFilters # <<>> /\ obj.type \notin Range(typeFilters) THEN FALSE
  ELSE IF query # <<>> /\ ~includes(toLowerCase(obj.name), query) THEN FALSE
  ELSE TRUE

RECURSIVE checkObject(_, _, _, _, _, _)
RECURSIVE someChild(_, _, _, _, _, _, _)

\* checkObject(id): the matchingIds after the call and the value it returns
checkObject(objs, id, query, typeFilters, matchingIds, fuel) ==
  IF id \notin DOMAIN objs \/ fuel = 0
  THEN [matchingIds |-> matchingIds, result |-> FALSE]
  ELSE LET obj == objs[id]
           selfMatches == matchesFilter(obj, query, typeFilters)
           children == someChild(objs, obj.childIds, 1, query, typeFilters,
                                 matchingIds, fuel - 1)
       IN  IF selfMatches \/ children.result
           THEN [matchingIds |-> Append(children.matchingIds, id), result |-> TRUE]
           ELSE [matchingIds |-> children.matchingIds, result |-> FALSE]

\* obj.childIds.some((childId) => checkObject(childId)) from the i-th child on:
\* some stops at the first child for which the callback returns true
someChild(objs, childIds, i, query, typeFilters, matchingIds, fuel) ==
  IF i > Len(childIds)
  THEN [matchingIds |-> matchingIds, result |-> FALSE]
  ELSE LET first == checkObject(objs, childIds[i], query, typeFilters, matchingIds, fuel)
       IN  IF first.result THEN first
           ELSE someChild(objs, childIds, i + 1, query, typeFilters,
                          first.matchingIds, fuel)

RECURSIVE forEachRoot(_, _, _, _, _, _)
\* rootIds.forEach((id) => checkObject(id)) from the i-th root on
forEachRoot(objs, rootIds, i, query, typeFilters, matchingIds) ==
  IF i > Len(rootIds) THEN matchingIds
  ELSE forEachRoot(objs, rootIds, i + 1, query, typeFilters,
                   checkObject(objs, rootIds[i], query, typeFilters, matchingIds,
                               Cardinality(DOMAIN objs)).matchingIds)

filterObjects(objs, rootIds, f) ==
  forEachRoot(objs, rootIds, 1, trim(toLowerCase(f.searchQuery)), f.typeFilters, <<>>)

isFiltering(f) == trim(f.searchQuery) # <<>> \/ f.typeFilters # <<>>

\* the filteredIds memo for filter f
FilteredIdsFor(f) ==
  IF ~isFiltering(f) THEN <<>> ELSE <<filterObjects(objects, rootObjectIds, f)>>

\* a step of the hierarchy panel that sets the filter to f and renders
SetFilter(f) ==
  /\ filter' = f
  /\ filteredIds' = FilteredIdsFor(f)
  /\ UNCHANGED <<storeVars, timers, flagVars, flyMounted, unmountedFlying, pendingEffects, lookVars, speedVars, focusVars,
                 meshRegistry, dragRef, vec3a, pointerCapture, orbitEnabled,
                 isTransformDragging, isRightMouseDown, fly, gesture>>

setSearchQuery(query) ==
  /\ SetFilter([filter EXCEPT !.searchQuery = query])

toggleTypeFilter(type) ==
  /\ SetFilter([filter EXCEPT !.typeFilters =
                  IF type \in Range(@) THEN SelectSeq(@, LAMBDA t : t # type)
                  ELSE Append(@, type)])

clearFilters ==
  /\ SetFilter([searchQuery |-> <<>>, typeFilters |-> <<>>])

FilterNames == {<<"a", "b">>, <<"B">>, <<"c">>}

FilterTypes == {"mesh", "light"}

FilterQueries == {<<"b">>, <<" ", "B", " ">>, <<"A", "b">>, <<" ">>, <<"c">>}

\* a scene object as addObject stores it, with the name and type the filter reads
FilterNode(name, type, parentId, childIds) ==
  [transform |-> defaultTransform, parentId |-> parentId, childIds |-> childIds,
   name |-> name, type |-> type]

\* three scenes of three nodes: two siblings under a parent, a chain, three roots
FilterScenes ==
  {[roots |-> <<"p">>, parent |-> [p |-> Null, c1 |-> "p", c2 |-> "p"],
    children |-> [p |-> <<"c1", "c2">>, c1 |-> <<>>, c2 |-> <<>>]],
   [roots |-> <<"p">>, parent |-> [p |-> Null, c1 |-> "p", c2 |-> "c1"],
    children |-> [p |-> <<"c1">>, c1 |-> <<"c2">>, c2 |-> <<>>]],
   [roots |-> <<"p", "c1", "c2">>, parent |-> [p |-> Null, c1 |-> Null, c2 |-> Null],
    children |-> [p |-> <<>>, c1 |-> <<>>, c2 |-> <<>>]]}

FilterIds == {"p", "c1", "c2"}

InitFilter ==
  \E scene \in FilterScenes, names \in [FilterIds -> FilterNames],
     types \in [FilterIds -> FilterTypes] :
    /\ objects = [id \in FilterIds |->
                    FilterNode(names[id], types[id], scene.parent[id], scene.children[id])]
    /\ objectKeys = <<"p", "c1", "c2">>
    /\ rootObjectIds = scene.roots
    /\ selectedIds = <<>>
    /\ transformMode = "translate"
    /\ transformSpace = "world"
    /\ history = <<>>
    /\ historyIndex = -1
    /\ timers = <<>>
    /\ meshRegistry = << >>
    /\ dragRef = dragRefInit
    /\ vec3a = Zero3
    /\ pointerCapture = FALSE
    /\ orbitEnabled = TRUE
    /\ isTransformDragging = FALSE
    /\ isRightMouseDown = FALSE
    /\ fly = flyInit
    /\ gesture = gestureInit
    /\ SideInit

NextFilter ==
  \/ \E query \in FilterQueries : setSearchQuery(query)
  \/ \E type \in FilterTypes : toggleTypeFilter(type)
  \/ clearFilters

SpecFilter == InitFilter /\ [][NextFilter]_vars

\* the ids reachable from the roots through childIds
RECURSIVE ReachableFrom(_, _)
ReachableFrom(ids, fuel) ==
  IF fuel = 0 THEN ids
  ELSE ReachableFrom(ids \cup UNION {Range(objects[id].childIds) : id \in ids \cap DOMAIN objects},
                     fuel - 1)

Reachable == ReachableFrom(Range(rootObjectIds), Cardinality(DOMAIN objects)) \cap DOMAIN objects

FilterMatches(id) ==
  LET query == trim(toLowerCase(filter.searchQuery))
  IN  /\ filter.typeFilters # <<>> => objects[id].type \in Range(filter.typeFilters)
      /\ query # <<>> => includes(toLowerCase(objects[id].name), query)

\* C27: filterObjects returns exactly the reachable nodes that match the
\* filter or have a descendant that matches, each once
C27_FilterReturnsMatchingSubtrees ==
  filteredIds # <<>> =>
    LET ids == filteredIds[1]
    IN  /\ Range(ids) = {id \in Reachable :
                           \E d \in Subtree(objects, id, Cardinality(DOMAIN objects)) :
                             FilterMatches(d)}
        /\ \A i, j \in 1..Len(ids) : ids[i] = ids[j] => i = j


\* C31: from the pointer-down that starts a drag until the pointer-up that
\* ends it, the orbit controller is disabled and the dragging flag is true.
\* The code re-enables the controller in onMouseUp of the secondary button,
\* which never reads the dragging flag.
C31_DragKeepsOrbitOff ==
  dragRef.active => ~orbitEnabled /\ isTransformDragging


\* C32: whenever the flying flag is true the orbit controller is disabled.
\* The code re-enables the controller in handlePointerUp, which never reads
\* the flying flag.
C32_FlyingKeepsOrbitOff ==
  isRightMouseDown => ~orbitEnabled


(* Specification SpecRetarget: a drag during which the selection changes.   *)
(* The scene holds two objects at different places, both rendered and        *)
(* registered; "a" is selected when the handle is pressed.                   *)

RetargetPoints == {<<1, 0, 0>>, <<2, 0, 0>>, <<1, 1, -1>>, <<2, 1, -1>>}

InitRetarget ==
  LET st == addObjectIn(addObjectIn([objects |-> <<>>, keys |-> <<>>, roots |-> <<>>,
                                     selected |-> <<>>], "a", defaultTransform, Null),
                        "b", [defaultTransform EXCEPT !.position = <<0, 1, -1>>], Null)
  IN  /\ objects = st.objects
      /\ objectKeys = st.keys
      /\ rootObjectIds = st.roots
      /\ selectedIds = <<"a">>
      /\ transformMode = "translate"
      /\ transformSpace = "world"
      /\ history = <<>>
      /\ historyIndex = -1
      /\ timers = <<>>
      /\ meshRegistry = [x \in {"a", "b"} |-> st.objects[x].transform]
      /\ dragRef = dragRefInit
      /\ vec3a = Zero3
      /\ pointerCapture = FALSE
      /\ orbitEnabled = TRUE
      /\ isTransformDragging = FALSE
      /\ isRightMouseDown = FALSE
      /\ fly = flyInit
      /\ gesture = gestureInit
      /\ SideInit

NextRetarget ==
  \/ \E id \in Ids : SelectObject(id, FALSE)
  \/ \E button \in Buttons, axis \in Axes, c \in Cameras, p \in RetargetPoints :
       gesture.phase = "none" /\ PointerDown(button, axis, c, p)
  \/ \E c \in Cameras, p \in RetargetPoints : PointerMove(c, p)
  \/ PointerUp

SpecRetarget == InitRetarget /\ [][NextRetarget]_vars

\* C33: from the pointer-down of a drag to its pointer-up, no node other
\* than the one snapshotted at the pointer-down has its renderable or its
\* stored transform changed.  The code moves and commits whatever node is
\* selected at the time of the move or of the pointer-up.
C33_DragKeepsTarget ==
  [][dragRef.active =>
       \A id \in DOMAIN objects \ {gesture.target} :
         /\ meshRegistry'[id] = meshRegistry[id]
         /\ objects'[id] = objects[id]]_vars


(* Specification SpecSwitch: a drag during which the transform mode or      *)
(* space is changed.  The object of SpecDrag is pressed on a translate       *)
(* handle in world space; the mode and the space change only after that.     *)

NextSwitch ==
  \/ \E mode \in TransformModes : dragRef.active /\ SetTransformMode(mode)
  \/ \E space \in TransformSpaces : dragRef.active /\ SetTransformSpace(space)
  \/ \E button \in Buttons, axis \in Axes, c \in Cameras, p \in DragPoints :
       gesture.phase = "none" /\ PointerDown(button, axis, c, p)
  \/ \E c \in Cameras, p \in DragPoints : PointerMove(c, p)
  \/ PointerUp

SpecSwitch == InitDrag /\ [][NextSwitch]_vars

\* C34: every drag-move applies the transform mode and space that were in
\* effect at the pointer-down of its drag, here translate in world space: it
\* leaves the target's rotation and scale as they were.  The code reads the
\* current mode at every move, and applies it to the plane and start point
\* chosen for the mode of the pointer-down.
C34_MoveUsesStartMode ==
  [][dragRef.active /\ gesture.target \in DOMAIN meshRegistry
       /\ (\E c \in Cameras, p \in DragPoints : PointerMove(c, p))
     => /\ meshRegistry'[gesture.target].rotation = meshRegistry[gesture.target].rotation
        /\ meshRegistry'[gesture.target].scale = meshRegistry[gesture.target].scale]_vars

\* C35: a drag-move whose ray meets the constraint plane at the start point
\* recorded by the pointer-down leaves the target's position, rotation and
\* scale equal to what they were just before the pointer-down.  The code
\* negates the scale when the start point is not on the positive side of the
\* handle's axis.
C35_ZeroMotionIsIdentity ==
  [][\A c \in Cameras, p \in ScalePoints :
       /\ dragRef.active
       /\ gesture.target \in DOMAIN meshRegistry
       /\ MoveHit(c, p) = <<dragRef.startPoint>>
       /\ PointerMove(c, p)
       => meshRegistry'[gesture.target] = gesture.pre]_vars


\* C36: while the fly controller's listeners are installed, its own
\* secondary-button field equals the shared flying flag, also after the
\* controller was unmounted and mounted again while the button was held.
C36_FieldEqualsFlag ==
  flyMounted => (fly.isRightMouseDown = isRightMouseDown)

\* the listeners are back after they were removed during a flight, and the
\* canvas still holds the pointer lock
C36_Witness ==
  /\ flyMounted
  /\ unmountedFlying
  /\ pointerLock = "locked"
  /\ ~isRightMouseDown
  /\ ~fly.isRightMouseDown


\* C37: whenever the fly controller's secondary-button field is false, its
\* six movement fields are false.
C37_NotFlyingHoldsNoKey ==
  ~fly.isRightMouseDown => HeldFields = {}

\* a flight has ended: the secondary button was pressed, which asked for the
\* pointer lock, and released before the lock was granted
C37_Witness ==
  /\ pointerLock = "requested"
  /\ ~fly.isRightMouseDown
  /\ HeldFields = {}


\* clearSelection()
ClearSelection ==
  /\ StoreTakes([StoreState EXCEPT !.selected = <<>>])
  /\ UNCHANGED timers

\* selectAll(): Object.keys(state.objects)
SelectAll ==
  /\ StoreTakes([StoreState EXCEPT !.selected = objectKeys])
  /\ UNCHANGED timers

(* Specification SpecSelection: the store's calls that add and remove nodes *)
(* and those that change the selection, in every order, on up to three       *)
(* nodes nested in one another.                                              *)

NextSelection ==
  \/ \E id \in GraphIds, parentId \in DOMAIN objects \cup {Null} :
       AddObject(id, Zero3, parentId)
  \/ \E id \in GraphIds : RemoveObject(id)
  \/ \E id \in GraphIds, newId \in GraphIds : DuplicateObject(id, newId)
  \/ \E id \in GraphIds, additive \in BOOLEAN : SelectObject(id, additive)
  \/ SelectAll
  \/ ClearSelection

SpecSelection == Init /\ [][NextSelection]_vars

\* C38: every id in the selection is the id of a node of the store.  The
\* code takes only the removed node itself out of the selection, so a
\* selected descendant of a removed node stays selected.
C38_SelectionInStore ==
  Range(selectedIds) \subseteq DOMAIN objects


\* the number of places of the list s that hold x
Occurrences(s, x) == Cardinality({i \in DOMAIN s : s[i] = x})

\* C39: every node of the store is attached exactly once: its parent id is
\* null and it stands exactly once in the root list, or its parent id names
\* a node of the store whose child-id list holds it exactly once.  The
\* code stores whatever parent id it is given: with one that names no node,
\* addObject and reparentObject put the id on no list at all.
C39_AttachedExactlyOnce ==
  \A id \in DOMAIN objects :
    IF objects[id].parentId = Null
      THEN Occurrences(rootObjectIds, id) = 1
      ELSE /\ objects[id].parentId \in DOMAIN objects
           /\ Occurrences(objects[objects[id].parentId].childIds, id) = 1


(* Specification SpecRemount: the scene-graph calls of the store together   *)
(* with the visuals React mounts for them.  SceneObjects renders a           *)
(* SceneObjectRenderer for every root of the store and each of them one for  *)
(* every child of its node; a renderer stays mounted while its key and its   *)
(* place in the tree stay the same, and a node that moves to another parent  *)
(* gets a new renderer while the old one unmounts.  Mounting schedules the   *)
(* effect that registers the group, unmounting the cleanup that unregisters  *)
(* the id.  The repository's code does not order the effects of one commit:  *)
(* they run one at a time, in any order, before the next store call.         *)

\* the renderers below the one of node id: each with its id and the ids
\* above it, from the root down
RECURSIVE VisualsFrom(_, _, _, _)
VisualsFrom(objs, id, path, fuel) ==
  IF id \notin DOMAIN objs \/ fuel = 0 THEN {}
  ELSE {[id |-> id, path |-> path]}
         \cup UNION {VisualsFrom(objs, objs[id].childIds[i], Append(path, id), fuel - 1) :
                       i \in 1..Len(objs[id].childIds)}

\* the renderers mounted for the store with nodes objs and root list roots
Visuals(objs, roots) ==
  UNION {VisualsFrom(objs, roots[i], <<>>, Cardinality(GraphIds)) : i \in 1..Len(roots)}

\* the ids that have a mounted visual
Mounted == {v.id : v \in Visuals(objects, rootObjectIds)}

\* the effects of the commit that takes the store from (objs, roots) to
\* (objs2, roots2): the cleanup of every renderer that unmounts and the
\* effect of every renderer that mounts
CommitEffects(objs, roots, objs2, roots2) ==
  {[op |-> "unregister", id |-> v.id] : v \in Visuals(objs, roots) \ Visuals(objs2, roots2)}
    \cup {[op |-> "register", id |-> v.id] : v \in Visuals(objs2, roots2) \ Visuals(objs, roots)}

\* the store takes the state st and React commits the render that follows
Commit(st) ==
  /\ pendingEffects = {}
  /\ objects' = st.objects
  /\ objectKeys' = st.keys
  /\ rootObjectIds' = st.roots
  /\ selectedIds' = st.selected
  /\ pendingEffects' = CommitEffects(objects, rootObjectIds, st.objects, st.roots)
  /\ UNCHANGED <<transformMode, transformSpace, history, historyIndex, timers, flagVars,
                 flyMounted, unmountedFlying, lookVars, speedVars, focusVars, panelVars,
                 meshRegistry, dragRef, pointerCapture, orbitEnabled, isTransformDragging,
                 isRightMouseDown, fly, gesture>>
  /\ Rerender(vec3a)

\* addObject({transform, parentId}) and the commit after it
AddAndCommit(id, position, parentId) ==
  /\ id \notin DOMAIN objects
  /\ id \notin DOMAIN meshRegistry
  /\ Commit([addObjectIn(StoreState, id, [defaultTransform EXCEPT !.position = position],
                         parentId)
               EXCEPT !.selected = selectedIds])

\* removeObject(id) and the commit after it
RemoveAndCommit(id) ==
  /\ id \in DOMAIN objects
  /\ Commit(removeObjectIn(StoreState, id))

\* reparentObject(id, newParentId) and the commit after it
ReparentAndCommit(id, newParentId) ==
  /\ id \in DOMAIN objects
  /\ ReparentExact(objects, id, newParentId)
  /\ Commit(reparentObjectIn(StoreState, id, newParentId))

\* one pending effect of SceneObjectRenderer runs: the effect registers
\* groupRef.current, the group with the node's transform props, under
\* object.id; the cleanup unregisters object.id
RunEffect(e) ==
  /\ e \in pendingEffects
  /\ pendingEffects' = pendingEffects \ {e}
  /\ meshRegistry' = IF e.op = "register"
                     THEN IF e.id \in DOMAIN objects
                          THEN register(meshRegistry, e.id, objects[e.id].transform)
                          ELSE meshRegistry
                     ELSE unregister(meshRegistry, e.id)
  /\ UNCHANGED <<storeVars, timers, flagVars, flyMounted, unmountedFlying, lookVars,
                 speedVars, focusVars, panelVars, dragRef, vec3a, pointerCapture,
                 orbitEnabled, isTransformDragging, isRightMouseDown, fly, gesture>>

NextRemount ==
  \/ \E id \in GraphIds, parentId \in DOMAIN objects \cup {Null} :
       AddAndCommit(id, Zero3, parentId)
  \/ \E id \in GraphIds : RemoveAndCommit(id)
  \/ \E id \in GraphIds, newParentId \in DOMAIN objects \cup {Null} :
       ReparentAndCommit(id, newParentId)
  \/ \E e \in pendingEffects : RunEffect(e)

SpecRemount == Init /\ [][NextRemount]_vars

=============================================================================
